---- MODULE Spec2Model ----
(***************************************************************************)
(* Git Center object engine: Git (loose objects, refs, tree navigation,    *)
(* commit writing) and Repository.saveFile, over an asynchronous remote    *)
(* file store.                                                             *)
(*                                                                         *)
(* Text and byte arrays are sequences of tokens.  A token stands for a run *)
(* of characters that the code never splits: a 40-hex object id, a mode,   *)
(* a path segment, the marker "ref:", one blank, one newline, one NUL.     *)
(* String concatenation is \o, so `refs/heads/${branch}` is                *)
(* <<"refs/heads/">> \o branch.                                            *)
(*                                                                         *)
(* A step of the model is one backend request/response together with the   *)
(* synchronous code that runs up to the next backend request: the engine   *)
(* is single-threaded and suspends only on backend I/O.                    *)
(***************************************************************************)
EXTENDS Naturals, Integers, Sequences, FiniteSets, TLC

\* this holds the fields of the object a specification is about when that
\* object is not the Git engine (ZeroFrame, Repository, EventEmitter, Cache)
VARIABLES files, objectCache, pc, loc, ret, this

vars == <<files, objectCache, pc, loc, ret, this>>

(***************************************************************************)
(* Bounds of the model.                                                    *)
(***************************************************************************)
\* number of concurrent async call chains (callers of the engine)
NumProcs == 2

\* how many of them call the ref resolver and the object store directly
NumCallers == 1

Procs == 1..NumProcs

Callers == 1..NumCallers

(***************************************************************************)
(* Tokens.                                                                 *)
(***************************************************************************)
SP == " "
NL == "\n"
NUL == "NUL"
NaN == "NaN"
REFMARK == "ref:"
HEADS == "refs/heads/"
TAGS == "refs/tags/"

\* full 40-character lowercase hex ids present in an imported repository
HexIds == {"c0", "c1", "t0", "t1", "b0", "b1", "b2"}

Whitespace == {SP, NL}

(***************************************************************************)
(* JavaScript string/array primitives on token sequences.                  *)
(***************************************************************************)
Min(a, b) == IF a < b THEN a ELSE b

Max(a, b) == IF a > b THEN a ELSE b

\* Array.prototype.indexOf(tok, from): 0-based, -1 when absent
IndexOf(s, tok, from) ==
    LET hits == {i \in Max(from, 0)..(Len(s) - 1) : s[i + 1] = tok}
    IN IF hits = {} THEN -1 ELSE CHOOSE i \in hits : \A j \in hits : i <= j

\* Array.prototype.slice(a, b): 0-based, negative indices count from the end
Slice(s, a, b) ==
    LET n == Len(s)
        lo == IF a < 0 THEN Max(n + a, 0) ELSE Min(a, n)
        hi == IF b < 0 THEN Max(n + b, 0) ELSE Min(b, n)
    IN IF lo >= hi THEN <<>> ELSE SubSeq(s, lo + 1, hi)

SliceFrom(s, a) == Slice(s, a, Len(s))

\* String.prototype.trim()
RECURSIVE TrimLeft(_)
TrimLeft(s) ==
    IF s # <<>> /\ Head(s) \in Whitespace THEN TrimLeft(Tail(s)) ELSE s

RECURSIVE TrimRight(_)
TrimRight(s) ==
    IF s # <<>> /\ s[Len(s)] \in Whitespace
    THEN TrimRight(SubSeq(s, 1, Len(s) - 1)) ELSE s

Trim(s) == TrimRight(TrimLeft(s))

\* String.prototype.startsWith(prefix)
StartsWith(s, prefix) ==
    Len(s) >= Len(prefix) /\ SubSeq(s, 1, Len(prefix)) = prefix

\* Git.isSha: /^[a-f0-9]{40}$/
isSha_never(str) == FALSE

isSha(str) == Len(str) = 1 /\ str[1] \in HexIds

(***************************************************************************)
(* Storage backend seen through Git.readFile / Git.writeFile.  files is    *)
(* the map path -> content of the files that exist under the repository    *)
(* root.                                                                   *)
(***************************************************************************)
FileExists(fs, path) == path \in DOMAIN fs

\* Git.writeFile: every byte goes through String.fromCharCode, which maps
\* NaN to the character with code 0
CharOf(byte) == IF byte = NaN THEN NUL ELSE byte

\* WriteFile that appends to a file that exists instead of replacing it
WriteFile_append(fs, path, content) ==
    [q \in DOMAIN fs \cup {path} |->
        IF q = path
        THEN (IF path \in DOMAIN fs THEN fs[path] ELSE <<>>)
             \o [i \in 1..Len(content) |-> CharOf(content[i])]
        ELSE fs[q]]

WriteFile(fs, path, content) ==
    [q \in DOMAIN fs \cup {path} |->
        IF q = path THEN [i \in 1..Len(content) |-> CharOf(content[i])]
        ELSE fs[q]]

(***************************************************************************)
(* Refs.                                                                   *)
(***************************************************************************)
HEAD == <<"HEAD">>

\* BranchRef that names HEAD for every branch
BranchRef_head(branch) == <<"HEAD">>

BranchRef(branch) == <<HEADS>> \o branch

TagRef(branch) == <<TAGS>> \o branch

Master == <<"master">>

\* GetRefHop with the name after "ref:" left untrimmed
GetRefHop_untrimmed(fs, ref) ==
    IF ~FileExists(fs, ref) THEN [k |-> "err", v |-> ref]
    ELSE LET refContent == Trim(fs[ref])
         IN IF StartsWith(refContent, <<REFMARK>>)
            THEN [k |-> "next", v |-> SliceFrom(refContent, 1)]
            ELSE [k |-> "ok", v |-> refContent]

\* One hop of Git.getRef: read the ref file, trim it, follow "ref:".
\*   k = "err"  the file cannot be read
\*   k = "next" the content is symbolic, v is the name getRef recurses on
\*   k = "ok"   v is the content returned
GetRefHop(fs, ref) ==
    IF ~FileExists(fs, ref) THEN [k |-> "err", v |-> ref]
    ELSE LET refContent == Trim(fs[ref])
         IN IF StartsWith(refContent, <<REFMARK>>)
            THEN [k |-> "next", v |-> Trim(SliceFrom(refContent, 1))]
            ELSE [k |-> "ok", v |-> refContent]

\* SetRefFile that ends the id with a newline
SetRefFile_newline(fs, ref, commit) == WriteFile(fs, ref, commit \o <<NL>>)

\* Git.setRef: the literal id becomes the content of the ref file
SetRefFile(fs, ref, commit) == WriteFile(fs, ref, commit)

(***************************************************************************)
(* Object codec.                                                           *)
(***************************************************************************)
BLOB == <<"blob">>
TREE == <<"tree">>
COMMIT == <<"commit">>
TAG == <<"tag">>
SUBMODULE == <<"submodule">>

\* Git.sha: the source returns a fixed string for every input
sha(data) == <<"placeholder_sha">>

\* Git.deflate / Git.inflate: the source returns its argument
deflate(data) == data

inflate(data) == data

\* ObjectPath that puts objects among the branch refs
ObjectPath_underRefs(id) == <<HEADS>> \o id

\* `objects/${id.substr(0, 2)}/${id.substr(2)}`: a path determined by the id
ObjectPath(id) == <<"objects/">> \o id

\* the 19 bytes that follow the first byte of a packed 40-hex id
IdTail == [i \in 1..19 |-> "~"]

\* Git.packSha on one token: parseInt(pair, 16) for every pair of characters.
\* A 40-hex id gives 20 bytes; 'placeholder_sha' gives the 8 values of
\* 'pl','ac','eh','ol','de','r_','sh','a'.
PackTok(t) ==
    IF t \in HexIds THEN <<t>> \o IdTail
    ELSE IF t = "placeholder_sha"
    THEN <<NaN, "172", "14", NaN, "222", NaN, NaN, "10">>
    ELSE <<NaN>>

RECURSIVE packSha(_)
packSha(shaString) ==
    IF shaString = <<>> THEN <<>>
    ELSE PackTok(Head(shaString)) \o packSha(Tail(shaString))

\* Git.unpackSha: two hex digits per byte, joined.  20 bytes that pack a
\* 40-hex id give that id back; other bytes give text that is no id.
unpackSha(buffer) ==
    IF Len(buffer) = 20 /\ buffer[1] \in HexIds /\ Tail(buffer) = IdTail
    THEN <<buffer[1]>>
    ELSE <<"hex:">> \o buffer

\* header and payload as Git.writeObject lays them out
ObjectData(type, content) ==
    type \o <<SP, ToString(Len(content))>> \o <<NUL>> \o content

\* String.prototype.split(sep) on a token sequence
RECURSIVE Split(_, _)
Split(s, sep) ==
    LET i == IndexOf(s, sep, 0)
    IN IF i = -1 THEN <<s>>
       ELSE <<Slice(s, 0, i)>> \o Split(SliceFrom(s, i + 1), sep)

\* Array.prototype.join(sep) on a sequence of token sequences
RECURSIVE Join(_, _)
Join(parts, sep) ==
    IF parts = <<>> THEN <<>>
    ELSE IF Len(parts) = 1 THEN parts[1]
    ELSE parts[1] \o <<sep>> \o Join(Tail(parts), sep)

\* decoded payloads carry a tag k: "bytes" (raw), "tree" (entry list),
\* "commit" / "tag" (header record)
Bytes(b) == [k |-> "bytes", v |-> b]

\* the kind Git.parseTree derives from a mode
ModeType(mode) ==
    IF mode # <<>> /\ mode[1] \in {"100644", "100755"} THEN BLOB
    ELSE IF mode # <<>> /\ mode[1] = "160000" THEN SUBMODULE
    ELSE TREE

\* the while loop of Git.parseTree over raw bytes; fuel bounds the number of
\* iterations the model follows
RECURSIVE ParseTreeLoop(_, _, _, _)
ParseTreeLoop(c, pos, items, fuel) ==
    IF ~(pos < Len(c)) \/ fuel = 0 THEN items
    ELSE LET spacePos == IndexOf(c, SP, pos)
             mode == Slice(c, pos, spacePos)
             pos1 == spacePos + 1
             nullPos == IndexOf(c, NUL, pos1)
             name == Slice(c, pos1, nullPos)
             pos2 == nullPos + 1
             objectId == unpackSha(Slice(c, pos2, pos2 + 20))
         IN ParseTreeLoop(c, pos2 + 20,
                Append(items, [type |-> ModeType(mode), name |-> name,
                               id |-> objectId]),
                fuel - 1)

\* Git.parseTree(object).  On a payload that is already an entry list (at
\* most 20 entries) indexOf(32) and indexOf(0) find nothing, so one entry is
\* built from the slices (0, -1) and (0, 20) of the list: its name is one
\* NUL per entry but the last and its id is the text of the entries.
parseTree(content) ==
    IF content.k = "bytes"
    THEN [k |-> "tree",
          v |-> ParseTreeLoop(content.v, 0, <<>>, Len(content.v) + 1)]
    ELSE IF content.k = "tree" /\ content.v # <<>>
    THEN [k |-> "tree",
          v |-> <<[type |-> TREE,
                   name |-> [i \in 1..(Len(content.v) - 1) |-> NUL],
                   id |-> [i \in 1..Len(content.v) |-> "[object Object]"]]>>]
    ELSE [k |-> "tree", v |-> <<>>]

\* the header loop of Git.parseCommit: lines up to the first empty one
RECURSIVE CommitHeaders(_, _, _)
CommitHeaders(lines, i, commit) ==
    IF i > Len(lines) THEN [commit |-> commit, messageStart |-> 0]
    ELSE IF lines[i] = <<>> THEN [commit |-> commit, messageStart |-> i]
    ELSE LET parts == Split(lines[i], SP)
             key == parts[1]
             value == Join(Tail(parts), SP)
             next == IF key = <<"tree">> THEN [commit EXCEPT !.tree = value]
                     ELSE IF key = <<"parent">>
                     THEN [commit EXCEPT !.parents = Append(@, value)]
                     ELSE IF key = <<"author">>
                     THEN [commit EXCEPT !.author = value]
                     ELSE IF key = <<"committer">>
                     THEN [commit EXCEPT !.committer = value]
                     ELSE commit
         IN CommitHeaders(lines, i + 1, next)

EmptyCommit ==
    [tree |-> <<>>, parents |-> <<>>, author |-> <<>>, committer |-> <<>>,
     message |-> <<>>]

\* Git.parseCommit(object).  A payload that is already a decoded commit is
\* no string and has no elements, so it reads as the empty text.
parseCommit(content) ==
    LET text == IF content.k = "bytes" THEN content.v ELSE <<>>
        lines == Split(text, NL)
        h == CommitHeaders(lines, 1, EmptyCommit)
    IN [k |-> "commit",
        v |-> [h.commit EXCEPT
                 !.message = Join(SliceFrom(lines, h.messageStart), NL)]]

\* Git.parseBlob(object)
parseBlob(content) == content

\* the switch of Git.readUnknownObject: the payload the object is left with
Decode(object) ==
    IF object.type = BLOB THEN [object EXCEPT !.content = parseBlob(@)]
    ELSE IF object.type = TREE THEN [object EXCEPT !.content = parseTree(@)]
    ELSE IF object.type = COMMIT
    THEN [object EXCEPT !.content = parseCommit(@)]
    ELSE object

\* UnpackedObject whose content starts at the NUL instead of after it
UnpackedObject_fromNul(fs, id) ==
    LET decompressed == inflate(fs[ObjectPath(id)])
        spaceIndex == IndexOf(decompressed, SP, 0)
        nullIndex == IndexOf(decompressed, NUL, 0)
    IN [type |-> Slice(decompressed, 0, spaceIndex),
        content |-> Bytes(SliceFrom(decompressed, nullIndex)),
        id |-> id]

\* Git.readUnpackedObject on a file that exists
UnpackedObject(fs, id) ==
    LET decompressed == inflate(fs[ObjectPath(id)])
        spaceIndex == IndexOf(decompressed, SP, 0)
        nullIndex == IndexOf(decompressed, NUL, 0)
    IN [type |-> Slice(decompressed, 0, spaceIndex),
        content |-> Bytes(SliceFrom(decompressed, nullIndex + 1)),
        id |-> id]

\* the tokens of entry names in the order localeCompare gives them
NameOrder == <<"-x", "/", "a.txt", "lib", "main.js", "README.md", "src">>

TokenRank(t) ==
    IF \E i \in 1..Len(NameOrder) : NameOrder[i] = t
    THEN CHOOSE i \in 1..Len(NameOrder) : NameOrder[i] = t
    ELSE 0

\* a.localeCompare(b) < 0
RECURSIVE LocaleLess(_, _)
LocaleLess(a, b) ==
    IF b = <<>> THEN FALSE
    ELSE IF a = <<>> THEN TRUE
    ELSE IF TokenRank(Head(a)) # TokenRank(Head(b))
    THEN TokenRank(Head(a)) < TokenRank(Head(b))
    ELSE LocaleLess(Tail(a), Tail(b))

\* the name Git.writeTree compares: tree names get a trailing '/'
SortName(item) == IF item.type = TREE THEN item.name \o <<"/">> ELSE item.name

\* items.sort(comparator): a stable sort by SortName
RECURSIVE InsertItem(_, _)
InsertItem(sorted, item) ==
    IF sorted = <<>> THEN <<item>>
    ELSE IF LocaleLess(SortName(item), SortName(Head(sorted)))
    THEN <<item>> \o sorted
    ELSE <<Head(sorted)>> \o InsertItem(Tail(sorted), item)

\* SortItems that leaves the items in the order given
SortItems_unsorted(items) == items

RECURSIVE SortItems(_)
SortItems(items) ==
    IF items = <<>> THEN <<>>
    ELSE InsertItem(SortItems(SubSeq(items, 1, Len(items) - 1)),
                    items[Len(items)])

\* the entry records Git.writeTree concatenates, for items already sorted
RECURSIVE TreeContent(_)
TreeContent(sortedItems) ==
    IF sortedItems = <<>> THEN <<>>
    ELSE LET item == Head(sortedItems)
             mode == IF item.type = TREE THEN "040000" ELSE "100644"
         IN <<mode, SP>> \o item.name \o <<NUL>> \o packSha(item.id)
            \o TreeContent(Tail(sortedItems))

\* the text Git.writeCommit builds
RECURSIVE ParentLines(_)
ParentLines(parents) ==
    IF parents = <<>> THEN <<>>
    ELSE <<"parent", SP>> \o Head(parents) \o <<NL>>
         \o ParentLines(Tail(parents))

CommitContent(treeId, commit) ==
    <<"tree", SP>> \o treeId \o <<NL>> \o ParentLines(commit.parents)
    \o <<"author", SP>> \o commit.author \o <<NL>>
    \o <<"committer", SP>> \o commit.committer \o <<NL, NL>>
    \o commit.message

(***************************************************************************)
(* Callers.  pc[p] is "idle", the backend request call chain p is waiting  *)
(* for, or "done"; loc[p] holds the locals of the call; ret[p] its result. *)
(***************************************************************************)
NoCall == [op |-> "none"]

NoRet == [st |-> "none"]

Ok(v) == [st |-> "ok", v |-> v]

Err(e) == [st |-> "err", e |-> e]

\* a call chain starts a call when it is not inside one; the locals and the
\* result of its previous call stay until then
CanCall(p) == pc[p] \in {"idle", "done"}

\* call chain p is the one that takes the step
Moved(p) == <<pc[p], loc[p], ret[p]>> # <<pc'[p], loc'[p], ret'[p]>>

(***************************************************************************)
(* Git.getRef(ref).  Every hop is one backend read; seen collects the      *)
(* names the call has already read.                                        *)
(***************************************************************************)
\* ref names callers resolve
RefNames == {HEAD, BranchRef(<<"master">>), BranchRef(<<"dev">>)}

GetRefCall(p, ref) ==
    /\ CanCall(p)
    /\ pc' = [pc EXCEPT ![p] = "getRef"]
    /\ loc' = [loc EXCEPT ![p] =
                 [op |-> "getRef", arg |-> ref, ref |-> ref, seen |-> {}]]
    /\ ret' = [ret EXCEPT ![p] = NoRet]
    /\ UNCHANGED <<files, objectCache>>
    /\ UNCHANGED this

GetRefStep(p) ==
    /\ pc[p] = "getRef"
    /\ LET hop == GetRefHop(files, loc[p].ref)
       IN IF hop.k = "next"
          THEN /\ loc' = [loc EXCEPT ![p].ref = hop.v,
                                     ![p].seen = @ \cup {loc[p].ref}]
               /\ UNCHANGED <<pc, ret>>
          ELSE /\ pc' = [pc EXCEPT ![p] = "done"]
               /\ ret' = [ret EXCEPT ![p] =
                            IF hop.k = "ok" THEN Ok(hop.v)
                            ELSE Err("Unknown ref")]
               /\ UNCHANGED loc
    /\ UNCHANGED <<files, objectCache>>
    /\ UNCHANGED this

\* Git.setRef(ref, commit): one backend write, which stores the file or
\* fails and makes the call throw
SetRefCall(p, ref, commit) ==
    /\ CanCall(p)
    /\ pc' = [pc EXCEPT ![p] = "done"]
    /\ loc' = [loc EXCEPT ![p] =
                 [op |-> "setRef", arg |-> ref, commit |-> commit]]
    /\ \/ /\ files' = SetRefFile(files, ref, commit)
          /\ ret' = [ret EXCEPT ![p] = Ok(<<>>)]
       \/ /\ files' = files
          /\ ret' = [ret EXCEPT ![p] = Err("fileWrite failed")]
    /\ UNCHANGED objectCache
    /\ UNCHANGED this

\* ids callers store in refs
SetRefIds == {<<"c0">>, <<"c1">>}

(***************************************************************************)
(* Ref files a repository can hold: absent, a direct id or a symbolic      *)
(* pointer, with or without blanks and a final newline.                    *)
(***************************************************************************)
RefContents ==
    {<<"c0", NL>>, <<"c1">>,
     <<REFMARK, SP, HEADS, "master", NL>>,
     <<REFMARK, HEADS, "dev">>,
     <<REFMARK, SP, "HEAD", NL>>}

InitRefs ==
    /\ \E D \in SUBSET RefNames : files \in [D -> RefContents]
    /\ objectCache = <<>>
    /\ pc = [p \in Procs |-> "idle"]
    /\ loc = [p \in Procs |-> NoCall]
    /\ ret = [p \in Procs |-> NoRet]
    /\ this = <<>>

NextRefs ==
    \E p \in Callers :
        \/ \E ref \in RefNames : GetRefCall(p, ref)
        \/ GetRefStep(p)

SpecRefs == InitRefs /\ [][NextRefs]_vars

\* ref resolution next to callers that store refs
NextSetRef ==
    \E p \in Callers :
        \/ \E ref \in RefNames : GetRefCall(p, ref)
        \/ GetRefStep(p)
        \/ \E ref \in RefNames, commit \in SetRefIds :
              SetRefCall(p, ref, commit)

SpecSetRef == InitRefs /\ [][NextSetRef]_vars

(***************************************************************************)
(* Claims about ref resolution (SpecRefs).                                 *)
(***************************************************************************)
\* C1: symbolic ref resolution terminates: a getRef call whose chain comes
\* back to a name it has already read ends in a resolution failure; it
\* never goes on to read that name again.
C1_GetRefTerminates ==
    \A p \in Procs : pc[p] = "getRef" => loc[p].ref \notin loc[p].seen

\* the id at the end of the chain of symbolic refs that starts at ref, or
\* <<>> when the chain meets a missing file, a name twice or a content that
\* is no id
RECURSIVE ChainEnd(_, _, _)
ChainEnd(fs, ref, visited) ==
    IF ref \notin DOMAIN fs \/ ref \in visited THEN <<>>
    ELSE LET c == Trim(fs[ref])
         IN IF c # <<>> /\ c[1] = REFMARK
            THEN ChainEnd(fs, Trim(Tail(c)), visited \cup {ref})
            ELSE IF isSha(c) THEN c ELSE <<>>

\* C7: for every acyclic chain of symbolic refs that ends in a ref holding
\* a direct id, getRef on the first name returns exactly that id.
C7_ChainResolves ==
    \A p \in Procs :
        (/\ pc[p] = "done"
         /\ loc[p].op = "getRef"
         /\ ChainEnd(files, loc[p].arg, {}) # <<>>)
        => (ret[p].st = "ok" /\ ret[p].v = ChainEnd(files, loc[p].arg, {}))

\* a two-hop chain HEAD -> refs/heads/... -> id has been resolved
C7_TwoHopResolved ==
    \E p \in Procs :
        /\ pc[p] = "done"
        /\ loc[p].op = "getRef"
        /\ loc[p].arg = HEAD
        /\ Cardinality(loc[p].seen) = 2
        /\ ret[p].st = "ok"
        /\ ret[p].v = <<"c0">>

\* C25: after setRef(name, id) the ref file holds exactly the literal id
\* and no other file has changed; getRef(name) on a file that holds a
\* literal id returns that id, so it does until the next setRef.
C25_SetRefGetRef ==
    [][\A p \in Procs :
          /\ (/\ CanCall(p) /\ Moved(p)
              /\ loc'[p].op = "setRef"
              /\ ret'[p].st = "ok")
             => /\ DOMAIN files' = DOMAIN files \cup {loc'[p].arg}
                /\ files'[loc'[p].arg] = loc'[p].commit
                /\ \A q \in DOMAIN files :
                      q # loc'[p].arg => files'[q] = files[q]
          /\ (/\ pc[p] = "getRef" /\ pc'[p] = "done"
              /\ loc[p].seen = {}
              /\ FileExists(files, loc[p].arg)
              /\ files[loc[p].arg] \in SetRefIds)
             => ret'[p] = Ok(files[loc[p].arg])
          /\ files' # files
             => \E q \in Procs :
                   /\ loc'[q].op = "setRef"
                   /\ ret'[q].st = "ok"
                   /\ files' = [r \in DOMAIN files \cup {loc'[q].arg} |->
                                  IF r = loc'[q].arg THEN loc'[q].commit
                                  ELSE files[r]]]_vars

\* getRef has returned c0 from the file setRef wrote it to
C25_ReadBack ==
    \E p \in Procs :
        /\ pc[p] = "done"
        /\ loc[p].op = "getRef"
        /\ loc[p].arg = BranchRef(Master)
        /\ FileExists(files, BranchRef(Master))
        /\ files[BranchRef(Master)] = <<"c0">>
        /\ ret[p] = Ok(<<"c0">>)

(***************************************************************************)
(* Object store: Git.writeObject, Git.readObject, Git.readUnknownObject    *)
(* and Git.readTreeItem.  objectCache maps an id to the object            *)
(* {type, content, id} that readObject cached; readUnknownObject decodes   *)
(* that object in place.                                                   *)
(***************************************************************************)
\* CacheHas that never finds an id
CacheHas_never(cache, id) == FALSE

\* this.objectCache.has(id)
CacheHas(cache, id) == id \in DOMAIN cache

CachePut(cache, id, object) ==
    [q \in DOMAIN cache \cup {id} |-> IF q = id THEN object ELSE cache[q]]

\* writeObject that also points refs/heads/master at the object written
writeObject_publishes(fs, type, content) ==
    LET data == ObjectData(type, content)
        id == sha(data)
    IN [id |-> id,
        files |-> WriteFile(WriteFile(fs, ObjectPath(id), deflate(data)),
                            BranchRef(Master), id)]

\* Git.writeObject: the id and the backend after the write
writeObject(fs, type, content) ==
    LET data == ObjectData(type, content)
        id == sha(data)
    IN [id |-> id, files |-> WriteFile(fs, ObjectPath(id), deflate(data))]

\* the ids on which reads of call chain p have failed so far
Missed(p) == IF "missed" \in DOMAIN loc[p] THEN loc[p].missed ELSE {}

WriteObject(p, type, content) ==
    /\ CanCall(p)
    /\ LET w == writeObject(files, type, content)
       IN /\ files' = w.files
          /\ loc' = [loc EXCEPT ![p] =
                       [op |-> "writeObject", type |-> type,
                        content |-> content, after |-> w.files,
                        missed |-> Missed(p),
                        repeat |-> /\ loc[p].op = "writeObject"
                                   /\ loc[p].type = type
                                   /\ loc[p].content = content
                                   /\ loc[p].after = files]]
          /\ ret' = [ret EXCEPT ![p] = Ok(w.id)]
    /\ pc' = [pc EXCEPT ![p] = "done"]
    /\ UNCHANGED objectCache
    /\ UNCHANGED this

\* Git.readObject, up to the backend read: a cached id is answered from the
\* cache (packedIndex is always empty, so a miss reads the loose object)
ReadObjectCall(p, id) ==
    /\ CanCall(p)
    /\ loc' = [loc EXCEPT ![p] =
                 [op |-> "readObject", id |-> id,
                  cached |-> id \in DOMAIN objectCache,
                  missed |-> Missed(p)]]
    /\ IF CacheHas(objectCache, id)
       THEN /\ pc' = [pc EXCEPT ![p] = "done"]
            /\ ret' = [ret EXCEPT ![p] = Ok(objectCache[id])]
       ELSE /\ pc' = [pc EXCEPT ![p] = "readObject"]
            /\ ret' = [ret EXCEPT ![p] = NoRet]
    /\ UNCHANGED <<files, objectCache>>
    /\ UNCHANGED this

\* the backend answers: the object is unpacked, cached and returned
ReadObjectIO(p) ==
    /\ pc[p] = "readObject"
    /\ pc' = [pc EXCEPT ![p] = "done"]
    /\ IF FileExists(files, ObjectPath(loc[p].id))
       THEN LET object == UnpackedObject(files, loc[p].id)
            IN /\ objectCache' = CachePut(objectCache, loc[p].id, object)
               /\ ret' = [ret EXCEPT ![p] = Ok(object)]
               /\ UNCHANGED loc
       ELSE /\ ret' = [ret EXCEPT ![p] = Err("Failed to read object")]
            /\ loc' = [loc EXCEPT ![p].missed = @ \cup {loc[p].id}]
            /\ UNCHANGED objectCache
    /\ UNCHANGED files
    /\ UNCHANGED this

\* path.split('/').filter(part => part.length > 0)
RECURSIVE NonEmpty(_)
NonEmpty(parts) ==
    IF parts = <<>> THEN <<>>
    ELSE IF Head(parts) = <<>> THEN NonEmpty(Tail(parts))
    ELSE <<Head(parts)>> \o NonEmpty(Tail(parts))

Segments(path) == NonEmpty(Split(path, "/"))

\* Walk that looks for the name in whatever the object holds, tree or not
RECURSIVE Walk_untyped(_, _, _)
Walk_untyped(cache, tree, path) ==
    IF ~CacheHas(cache, tree)
    THEN [k |-> "miss", cache |-> cache, tree |-> tree, path |-> path]
    ELSE LET object == Decode(cache[tree])
             cache2 == [cache EXCEPT ![tree] = object]
             items == IF object.type = TREE THEN object.content.v ELSE <<>>
             found == {i \in 1..Len(items) : items[i].name = path[1]}
         IN IF path = <<>>
            THEN [k |-> "ret", cache |-> cache2, v |-> object,
                  tree |-> tree, path |-> path]
            ELSE IF found = {}
            THEN [k |-> "err", cache |-> cache2, e |-> "has no object named",
                  tree |-> tree, path |-> path]
            ELSE Walk_untyped(cache2,
                     items[CHOOSE i \in found : \A j \in found : i <= j].id,
                     Tail(path))

\* Git.readTreeItem from tree along path for as long as the objects it
\* reaches are cached; every object reached is decoded in place.
\*   k = "miss"  tree is not cached: a backend read is needed
\*   k = "ret"   v is the object returned
\*   k = "err"   e is the error thrown
\* tree is the id of the object reached last and path the segments that
\* remain from there.
RECURSIVE Walk(_, _, _)
Walk(cache, tree, path) ==
    IF ~CacheHas(cache, tree)
    THEN [k |-> "miss", cache |-> cache, tree |-> tree, path |-> path]
    ELSE LET object == Decode(cache[tree])
             cache2 == [cache EXCEPT ![tree] = object]
         IN IF path = <<>>
            THEN [k |-> "ret", cache |-> cache2, v |-> object,
                  tree |-> tree, path |-> path]
            ELSE IF object.type # TREE
            THEN [k |-> "err", cache |-> cache2, e |-> "is not a tree",
                  tree |-> tree, path |-> path]
            ELSE LET items == object.content.v
                     found == {i \in 1..Len(items) : items[i].name = path[1]}
                 IN IF found = {}
                    THEN [k |-> "err", cache |-> cache2,
                          e |-> "has no object named",
                          tree |-> tree, path |-> path]
                    ELSE LET file == items[CHOOSE i \in found :
                                             \A j \in found : i <= j]
                         IN Walk(cache2, file.id, Tail(path))

\* what a call chain in readTreeItem does with the outcome of Walk; call
\* holds its locals, which keep the object reached and the segments left
TreeItemOutcome(p, call, w) ==
    /\ objectCache' = w.cache
    /\ loc' = [loc EXCEPT ![p] =
                 [call EXCEPT !.tree = w.tree, !.path = w.path]]
    /\ IF w.k = "miss"
       THEN /\ pc' = [pc EXCEPT ![p] = "readTreeItem"]
            /\ ret' = [ret EXCEPT ![p] = NoRet]
       ELSE /\ pc' = [pc EXCEPT ![p] = "done"]
            /\ ret' = [ret EXCEPT ![p] =
                         IF w.k = "ret" THEN Ok(w.v) ELSE Err(w.e)]

\* Git.readTreeItem(tree, path), up to the first backend read
ReadTreeItemCall(p, tree, path) ==
    /\ CanCall(p)
    /\ TreeItemOutcome(p,
           [op |-> "readTreeItem", root |-> tree, arg |-> path,
            tree |-> tree, path |-> Segments(path), missed |-> Missed(p)],
           Walk(objectCache, tree, Segments(path)))
    /\ UNCHANGED files
    /\ UNCHANGED this

\* the backend answers the read of loc[p].tree: readObject caches the
\* object and the walk goes on
ReadTreeItemIO(p) ==
    /\ pc[p] = "readTreeItem"
    /\ IF FileExists(files, ObjectPath(loc[p].tree))
       THEN TreeItemOutcome(p, loc[p],
                Walk(CachePut(objectCache, loc[p].tree,
                              UnpackedObject(files, loc[p].tree)),
                     loc[p].tree, loc[p].path))
       ELSE /\ pc' = [pc EXCEPT ![p] = "done"]
            /\ ret' = [ret EXCEPT ![p] = Err("Failed to read object")]
            /\ UNCHANGED <<objectCache, loc>>
    /\ UNCHANGED files
    /\ UNCHANGED this

(***************************************************************************)
(* An imported repository, stored the way Git.readUnpackedObject reads it: *)
(*   commit c0 -> tree t0 = { README.md -> b0, src -> t1 }                 *)
(*                tree t1 = { main.js -> b1 }                              *)
(* with HEAD -> refs/heads/master -> c0.                                   *)
(***************************************************************************)
Author == <<"author1">>

ImportedObjects ==
    [id \in {"c0", "t0", "t1", "b0", "b1"} |->
        IF id = "c0"
        THEN ObjectData(COMMIT,
                CommitContent(<<"t0">>,
                    [parents |-> <<>>, author |-> Author,
                     committer |-> Author, message |-> <<"import">>]))
        ELSE IF id = "t0"
        THEN ObjectData(TREE,
                <<"100644", SP, "README.md", NUL>> \o packSha(<<"b0">>)
                \o <<"40000", SP, "src", NUL>> \o packSha(<<"t1">>))
        ELSE IF id = "t1"
        THEN ObjectData(TREE,
                <<"100644", SP, "main.js", NUL>> \o packSha(<<"b1">>))
        ELSE IF id = "b0" THEN ObjectData(BLOB, <<"hello">>)
        ELSE ObjectData(BLOB, <<"code">>)]

ImportedFiles ==
    [q \in {HEAD, BranchRef(<<"master">>)}
           \cup {ObjectPath(<<id>>) : id \in DOMAIN ImportedObjects} |->
        IF q = HEAD THEN <<REFMARK, SP, HEADS, "master", NL>>
        ELSE IF q = BranchRef(<<"master">>) THEN <<"c0", NL>>
        ELSE ImportedObjects[q[2]]]

\* payloads callers write (a one-byte blob and the six bytes "hello\n"),
\* ids and paths callers read
WritePayloads ==
    {<<BLOB, <<"x">>>>, <<BLOB, <<"h", "e", "l", "l", "o", NL>>>>}

ReadIds == {<<"b0">>, <<"placeholder_sha">>}

ReadRoots == {<<"t0">>}

ReadPaths ==
    {<<"/">>, <<"README.md">>, <<"src", "/", "main.js">>, <<"docs">>,
     <<"README.md", "/", "x">>}

InitStore ==
    /\ files = ImportedFiles
    /\ objectCache = <<>>
    /\ pc = [p \in Procs |-> "idle"]
    /\ loc = [p \in Procs |-> NoCall]
    /\ ret = [p \in Procs |-> NoRet]
    /\ this = <<>>

NextStore ==
    \E p \in Callers :
        \/ \E w \in WritePayloads : WriteObject(p, w[1], w[2])
        \/ \E id \in ReadIds : ReadObjectCall(p, id)
        \/ ReadObjectIO(p)
        \/ \E tree \in ReadRoots : \E path \in ReadPaths :
               ReadTreeItemCall(p, tree, path)
        \/ ReadTreeItemIO(p)

SpecStore == InitStore /\ [][NextStore]_vars

(***************************************************************************)
(* Decoding of stored bytes that no writer of objects produced: the        *)
(* imported repository with such bytes under the id c1, read with          *)
(* Git.readObject and Git.readTreeItem.                                    *)
(***************************************************************************)
\* stored bytes that are no well-formed object: an empty file, a header
\* without blank, a header without NUL, a length that is not the size of the
\* payload, a tree whose entry stops after the name, a tree whose entry
\* stops inside the id
Malformed ==
    {<<>>,
     <<"blob5", NUL, "hello">>,
     <<"blob", SP, "1", "hello">>,
     <<"blob", SP, "7", NUL, "hello">>,
     <<"tree", SP, "3", NUL, "100644", SP, "README.md">>,
     <<"tree", SP, "7", NUL, "100644", SP, "README.md", NUL, "b0", "~", "~">>}

DecodeIds == {<<"c1">>, <<"b0">>}

DecodePaths == {<<"/">>, <<"README.md">>}

InitDecode ==
    /\ \E m \in Malformed :
          files = [q \in DOMAIN ImportedFiles \cup {ObjectPath(<<"c1">>)} |->
                      IF q = ObjectPath(<<"c1">>) THEN m ELSE ImportedFiles[q]]
    /\ objectCache = <<>>
    /\ pc = [p \in Procs |-> "idle"]
    /\ loc = [p \in Procs |-> NoCall]
    /\ ret = [p \in Procs |-> NoRet]
    /\ this = <<>>

NextDecode ==
    \E p \in Callers :
        \/ \E id \in DecodeIds : ReadObjectCall(p, id)
        \/ ReadObjectIO(p)
        \/ \E path \in DecodePaths : ReadTreeItemCall(p, <<"c1">>, path)
        \/ ReadTreeItemIO(p)

SpecDecode == InitDecode /\ [][NextDecode]_vars

(***************************************************************************)
(* Claims about the object store (SpecStore, SpecDecode).                  *)
(***************************************************************************)
IsObjectPath(q) == q[1] = "objects/"

\* C4: stored objects are write-once: the bytes stored at an object path
\* never change under any later write, so two writes with different
\* (type, content) never share a storage path.
C4_WriteOnce ==
    [][\A q \in DOMAIN files :
          IsObjectPath(q) => (q \in DOMAIN files' /\ files'[q] = files[q])]_vars

\* C8: readObject on a cached id returns the cached object without a
\* backend read; a backend read is issued only for an id that is not
\* cached, and when it succeeds the id is cached with the object returned.
C8_CachedReadNoBackend ==
    [][\A p \in Procs :
          /\ (pc[p] # "readObject" /\ pc'[p] = "readObject")
                => loc'[p].id \notin DOMAIN objectCache
          /\ (/\ CanCall(p)
              /\ Moved(p)
              /\ loc'[p].op = "readObject"
              /\ loc'[p].id \in DOMAIN objectCache)
                => /\ pc'[p] = "done"
                   /\ ret'[p].st = "ok"
                   /\ ret'[p].v = objectCache[loc'[p].id]
                   /\ UNCHANGED <<files, objectCache>>
          /\ (pc[p] = "readObject" /\ pc'[p] = "done" /\ ret'[p].st = "ok")
                => /\ loc[p].id \in DOMAIN objectCache'
                   /\ objectCache'[loc[p].id] = ret'[p].v]_vars

\* a readObject call has been answered from the cache
C8_CacheHit ==
    \E p \in Procs :
        /\ pc[p] = "done"
        /\ loc[p].op = "readObject"
        /\ loc[p].cached
        /\ ret[p].st = "ok"
        /\ ret[p].v.id = <<"b0">>

\* C9: writeObject is idempotent: writing the same (type, content) again
\* returns the same id and leaves the backend as the first write left it.
C9_WriteIdempotent ==
    [][\A p \in Procs :
          (loc'[p].op = "writeObject" /\ loc'[p].repeat /\ loc'[p] # loc[p])
            => (files' = files /\ ret'[p] = ret[p])]_vars

\* the same (type, content) has been written twice in a row
C9_WrittenTwice ==
    \E p \in Procs :
        /\ pc[p] = "done"
        /\ loc[p].op = "writeObject"
        /\ loc[p].repeat
        /\ ret[p].st = "ok"
        /\ files[ObjectPath(ret[p].v)] = ObjectData(loc[p].type, loc[p].content)

\* the entry a stored tree holds at a path, read from the backend alone:
\*   k = "entry"    id is the id stored in the entry at the path
\*   k = "missing"  a segment is missing from the tree reached
\*   k = "notree"   the object reached before the last segment is no tree
RECURSIVE StoredEntry(_, _, _)
StoredEntry(fs, tree, segs) ==
    IF ~FileExists(fs, ObjectPath(tree)) THEN [k |-> "notree"]
    ELSE LET object == UnpackedObject(fs, tree)
             items == parseTree(object.content).v
             found == {i \in 1..Len(items) : items[i].name = segs[1]}
         IN IF object.type # TREE THEN [k |-> "notree"]
            ELSE IF found = {} THEN [k |-> "missing"]
            ELSE LET e == items[CHOOSE i \in found : \A j \in found : i <= j]
                 IN IF Len(segs) = 1 THEN [k |-> "entry", id |-> e.id]
                    ELSE StoredEntry(fs, e.id, Tail(segs))

\* C10: for every path at which the tree holds an entry, readTreeItem
\* returns the object whose id is the id stored in the entry; for every path
\* with a segment missing from the tree reached, it fails with not-found.
C10_LookupFindsEntry ==
    \A p \in Procs :
        (/\ pc[p] = "done"
         /\ loc[p].op = "readTreeItem"
         /\ Segments(loc[p].arg) # <<>>)
        => LET e == StoredEntry(files, loc[p].root, Segments(loc[p].arg))
           IN /\ e.k = "entry" => (ret[p].st = "ok" /\ ret[p].v.id = e.id)
              /\ e.k = "missing"
                    => (ret[p].st = "err" /\ ret[p].e = "has no object named")

\* the id the specification quotes for the blob "hello\n"
ReferenceId == <<"ce013625030ba8dba906f756967f9e9ca394464">>

\* C17: the id computed for the blob whose content is the six bytes of
\* "hello\n" is the reference content hash of "blob 6", NUL and the payload.
C17_HelloBlobId ==
    \A p \in Procs :
        (/\ pc[p] = "done"
         /\ loc[p].op = "writeObject"
         /\ ObjectData(loc[p].type, loc[p].content)
               = <<"blob", SP, "6", NUL, "h", "e", "l", "l", "o", NL>>)
        => ret[p] = Ok(ReferenceId)

\* the entry records of a tree payload are complete: mode, blank, name, NUL
\* and 20 bytes of id, one after the other up to the end
RECURSIVE EntriesComplete(_)
EntriesComplete(c) ==
    \/ c = <<>>
    \/ LET sp == IndexOf(c, SP, 0)
           nul == IndexOf(c, NUL, 0)
       IN /\ sp >= 1
          /\ nul > sp + 1
          /\ Len(c) >= nul + 21
          /\ EntriesComplete(SliceFrom(c, nul + 21))

\* stored bytes are a well-formed object: a type, one blank, the length,
\* NUL, a payload of that length, and for a tree complete entry records
WellFormed(data) ==
    LET sp == IndexOf(data, SP, 0)
        nul == IndexOf(data, NUL, 0)
        payload == SliceFrom(data, nul + 1)
    IN /\ sp >= 1
       /\ nul = sp + 2
       /\ data[nul] = ToString(Len(payload))
       /\ Slice(data, 0, sp) = TREE => EntriesComplete(payload)

\* C18: decoding rejects malformed input: a read of an object whose stored
\* bytes have a malformed header, a length that disagrees with the payload
\* or truncated tree entries fails instead of returning an object.
C18_MalformedRejected ==
    \A p \in Procs :
        LET id == IF loc[p].op = "readObject" THEN loc[p].id
                  ELSE IF loc[p].op = "readTreeItem" THEN loc[p].root
                  ELSE <<>>
        IN (/\ pc[p] = "done"
            /\ id # <<>>
            /\ FileExists(files, ObjectPath(id))
            /\ ~WellFormed(files[ObjectPath(id)]))
           => ret[p].st = "err"

\* C19: readObject on an id whose loose-object path is absent fails and adds
\* no entry to objectCache; a read of an id that failed before succeeds once
\* the object is stored, and returns what is stored.
C19_MissingReadFails ==
    [][\A p \in Procs :
          (pc[p] = "readObject" /\ pc'[p] = "done")
          => IF ~FileExists(files, ObjectPath(loc[p].id))
             THEN /\ ret'[p].st = "err"
                  /\ objectCache' = objectCache
                  /\ loc[p].id \notin DOMAIN objectCache'
             ELSE loc[p].id \in Missed(p)
                  => /\ ret'[p].st = "ok"
                     /\ ret'[p].v.id = loc[p].id
                     /\ ObjectData(ret'[p].v.type, ret'[p].v.content.v)
                           = files[ObjectPath(loc[p].id)]]_vars

\* a read has succeeded on an id on which an earlier read failed
C19_ReadAfterMiss ==
    \E p \in Procs :
        /\ pc[p] = "done"
        /\ loc[p].op = "readObject"
        /\ loc[p].id \in loc[p].missed
        /\ ~loc[p].cached
        /\ ret[p].st = "ok"
        /\ ret[p].v.type = BLOB
        /\ loc[p].id \in DOMAIN objectCache

\* C20: readTreeItem(root, path) with a path that has no non-empty segment
\* returns the root object decoded according to its kind.
C20_EmptyPathGivesRoot ==
    \A p \in Procs :
        (/\ pc[p] = "done"
         /\ loc[p].op = "readTreeItem"
         /\ Segments(loc[p].arg) = <<>>
         /\ FileExists(files, ObjectPath(loc[p].root))
         /\ WellFormed(files[ObjectPath(loc[p].root)]))
        => ret[p] = Ok(Decode(UnpackedObject(files, loc[p].root)))

\* C21: readTreeItem fails with "is not a tree" whenever segments remain at
\* an object that is not a tree; it returns an object only when no segment
\* is left.
C21_NotATree ==
    \A p \in Procs :
        (/\ pc[p] = "done"
         /\ loc[p].op = "readTreeItem"
         /\ loc[p].tree \in DOMAIN objectCache)
        => /\ (loc[p].path # <<>> /\ objectCache[loc[p].tree].type # TREE)
                 => ret[p] = Err("is not a tree")
           /\ ret[p].st = "ok" => loc[p].path = <<>>

\* a lookup below the blob README.md has failed at the blob
C21_BelowBlob ==
    \E p \in Procs :
        /\ pc[p] = "done"
        /\ loc[p].op = "readTreeItem"
        /\ loc[p].arg = <<"README.md", "/", "x">>
        /\ loc[p].tree = <<"b0">>
        /\ loc[p].path = <<<<"x">>>>
        /\ objectCache[<<"b0">>].type = BLOB
        /\ ret[p] = Err("is not a tree")

\* C28: decoded reads are repeatable: a readTreeItem call with no segment
\* (readUnknownObject) that repeats the caller's previous one on the same id
\* returns the same type and the same decoded content.
C28_RepeatableDecode ==
    [][\A p \in Procs :
          (/\ pc[p] = "done" /\ pc'[p] = "done"
           /\ loc[p].op = "readTreeItem" /\ loc'[p].op = "readTreeItem"
           /\ loc[p].path = <<>> /\ loc'[p].path = <<>>
           /\ Segments(loc[p].arg) = <<>> /\ Segments(loc'[p].arg) = <<>>
           /\ loc'[p].root = loc[p].root
           /\ ret[p].st = "ok")
          => ret'[p] = ret[p]]_vars

(***************************************************************************)
(* Tree codec: Git.writeTree(items) and Git.parseTree(object) called on    *)
(* lists of entries that name objects of an imported repository.           *)
(***************************************************************************)
\* Git.writeTree(items): the bytes of the tree, its id and the backend after
\* the write
writeTree(fs, items) ==
    LET content == TreeContent(SortItems(items))
        w == writeObject(fs, TREE, content)
    IN [content |-> content, id |-> w.id, files |-> w.files]

\* entries callers put in a tree: two blobs, a tree and a blob whose names
\* differ only after "src", and a submodule link
TreeEntries ==
    {[type |-> BLOB, name |-> <<"README.md">>, id |-> <<"b0">>],
     [type |-> TREE, name |-> <<"src">>, id |-> <<"t1">>],
     [type |-> BLOB, name |-> <<"src", "-x">>, id |-> <<"b1">>],
     [type |-> SUBMODULE, name |-> <<"lib">>, id |-> <<"c1">>],
     [type |-> BLOB, name |-> <<"a.txt">>, id |-> <<"b2">>]}

\* longest list of entries given to writeTree
MaxItems == 4

\* the lists of at most MaxItems distinct entries
ItemLists ==
    UNION {{s \in [1..n -> TreeEntries] :
               \A i, j \in 1..n : i # j => s[i] # s[j]} : n \in 0..MaxItems}

WriteTreeCall(p, items) ==
    /\ CanCall(p)
    /\ LET w == writeTree(files, items)
       IN /\ files' = w.files
          /\ loc' = [loc EXCEPT ![p] =
                       [op |-> "writeTree", items |-> items,
                        content |-> w.content]]
          /\ ret' = [ret EXCEPT ![p] = Ok(w.id)]
    /\ pc' = [pc EXCEPT ![p] = "done"]
    /\ UNCHANGED objectCache
    /\ UNCHANGED this

\* Git.parseTree({content}) on the bytes the caller's writeTree produced
ParseTreeCall(p) ==
    /\ pc[p] = "done"
    /\ loc[p].op = "writeTree"
    /\ loc' = [loc EXCEPT ![p] =
                 [op |-> "parseTree", items |-> loc[p].items,
                  content |-> loc[p].content]]
    /\ ret' = [ret EXCEPT ![p] = Ok(parseTree(Bytes(loc[p].content)).v)]
    /\ UNCHANGED <<files, objectCache, pc>>
    /\ UNCHANGED this

InitTree ==
    /\ files = <<>>
    /\ objectCache = <<>>
    /\ pc = [p \in Procs |-> "idle"]
    /\ loc = [p \in Procs |-> NoCall]
    /\ ret = [p \in Procs |-> NoRet]
    /\ this = <<>>

\* the codec is called by one call chain
NextTree ==
    \/ \E items \in ItemLists : WriteTreeCall(1, items)
    \/ ParseTreeCall(1)

SpecTree == InitTree /\ [][NextTree]_vars

(***************************************************************************)
(* Claims about the tree codec (SpecTree).                                 *)
(***************************************************************************)
\* the rearrangements of a list
Rearrangements(items) ==
    {[i \in 1..Len(items) |-> items[f[i]]] :
        f \in {g \in [1..Len(items) -> 1..Len(items)] :
                  \A i, j \in 1..Len(items) : i # j => g[i] # g[j]}}

\* the list is in the order of the names, a tree's name taken with a
\* trailing '/'
InNameOrder(items) ==
    \A i, j \in 1..Len(items) :
        i < j => LocaleLess(SortName(items[i]), SortName(items[j]))

Canonical(items) ==
    CHOOSE perm \in Rearrangements(items) : InNameOrder(perm)

\* C12: tree encode/decode round-trips: parseTree on the bytes writeTree
\* produced for a list of blob, tree and submodule entries yields the same
\* entries (name, kind, id) in canonical order.
C12_TreeRoundTrip ==
    \A p \in Procs :
        (pc[p] = "done" /\ loc[p].op = "parseTree")
        => ret[p].v = Canonical(loc[p].items)


(***************************************************************************)
(* Name lookup: Git.getBranchCommit(branch), Git.getHead() and             *)
(* Git.getRefList() over loose ref files and a packed-refs file.           *)
(***************************************************************************)
PACKED == <<"packed-refs">>

\* Git.getHead on the content of HEAD:
\* replace(/^ref:\s*refs\/heads\//, '').trim()
HeadName(content) ==
    LET rest == IF content # <<>> /\ Head(content) = REFMARK
                THEN TrimLeft(Tail(content)) ELSE <<>>
    IN IF rest # <<>> /\ Head(rest) = HEADS THEN Trim(Tail(rest))
       ELSE Trim(content)

\* where getBranchCommit(branch) goes before its first backend read: it
\* returns a full id, reads HEAD for the empty name, or resolves
\* refs/heads/<branch>
GbcEnter(p, call, branch) ==
    IF isSha(branch)
    THEN /\ pc' = [pc EXCEPT ![p] = "done"]
         /\ loc' = [loc EXCEPT ![p] = [call EXCEPT !.branch = branch]]
         /\ ret' = [ret EXCEPT ![p] = Ok(branch)]
    ELSE /\ pc' = [pc EXCEPT ![p] =
                     IF branch = <<>> THEN "gbc:head" ELSE "gbc:heads"]
         /\ loc' = [loc EXCEPT ![p] =
                      [call EXCEPT !.branch = branch,
                                   !.ref = BranchRef(branch)]]
         /\ ret' = [ret EXCEPT ![p] = NoRet]

GetBranchCommitCall(p, branch) ==
    /\ CanCall(p)
    /\ GbcEnter(p, [op |-> "getBranchCommit", arg |-> branch,
                    branch |-> branch, ref |-> <<>>, reads |-> 0,
                    heads |-> 0], branch)
    /\ UNCHANGED <<files, objectCache>>
    /\ UNCHANGED this

\* the read of HEAD in Git.getHead answers; getBranchCommit is entered
\* again with the name getHead returns.  heads counts these reads up to 2.
GbcHead(p) ==
    /\ pc[p] = "gbc:head"
    /\ IF FileExists(files, HEAD)
       THEN GbcEnter(p, [loc[p] EXCEPT !.reads = 1,
                                       !.heads = Min(@ + 1, 2)],
                     HeadName(files[HEAD]))
       ELSE /\ pc' = [pc EXCEPT ![p] = "done"]
            /\ loc' = [loc EXCEPT ![p].reads = 1]
            /\ ret' = [ret EXCEPT ![p] = Err("No HEAD ref found")]
    /\ UNCHANGED <<files, objectCache>>
    /\ UNCHANGED this

\* one hop of getRef on refs/heads/<branch> and, when that chain fails, on
\* refs/tags/<branch>
GbcResolve(p) ==
    /\ pc[p] \in {"gbc:heads", "gbc:tags"}
    /\ LET hop == GetRefHop(files, loc[p].ref)
       IN IF hop.k = "next"
          THEN /\ loc' = [loc EXCEPT ![p].ref = hop.v, ![p].reads = 1]
               /\ UNCHANGED <<pc, ret>>
          ELSE IF hop.k = "ok"
          THEN /\ pc' = [pc EXCEPT ![p] = "done"]
               /\ loc' = [loc EXCEPT ![p].reads = 1]
               /\ ret' = [ret EXCEPT ![p] = Ok(hop.v)]
          ELSE IF pc[p] = "gbc:heads"
          THEN /\ pc' = [pc EXCEPT ![p] = "gbc:tags"]
               /\ loc' = [loc EXCEPT ![p].ref = TagRef(loc[p].branch),
                                     ![p].reads = 1]
               /\ UNCHANGED ret
          ELSE /\ pc' = [pc EXCEPT ![p] = "done"]
               /\ loc' = [loc EXCEPT ![p].reads = 1]
               /\ ret' = [ret EXCEPT ![p] = Err("Could not find branch")]
    /\ UNCHANGED <<files, objectCache>>
    /\ UNCHANGED this

\* the backend command dirList on the directory refs: the names of its
\* entries, which are the directories heads and tags when they hold a file
DirList(fs) ==
    (IF \E q \in DOMAIN fs : q[1] = HEADS THEN <<<<"heads">>>> ELSE <<>>)
    \o (IF \E q \in DOMAIN fs : q[1] = TAGS THEN <<<<"tags">>>> ELSE <<>>)

\* refsDir.map(ref => `refs/${ref}`)
RECURSIVE RefsOfDir(_)
RefsOfDir(refsDir) ==
    IF refsDir = <<>> THEN <<>>
    ELSE <<<<"refs/">> \o Head(refsDir)>> \o RefsOfDir(Tail(refsDir))

\* an includes that finds every name
Includes_always(refs, ref) == TRUE

\* refs.includes(ref)
Includes(refs, ref) == \E i \in 1..Len(refs) : refs[i] = ref

\* the loop of Git.getRefList over the lines of packed-refs
RECURSIVE PackedLoop(_, _)
PackedLoop(lines, refs) ==
    IF lines = <<>> THEN refs
    ELSE LET line == Head(lines)
             parts == Split(line, SP)
             ref == IF Len(parts) >= 2 THEN parts[2] ELSE <<>>
         IN PackedLoop(Tail(lines),
                IF /\ Trim(line) # <<>>
                   /\ ~StartsWith(line, <<"#">>)
                   /\ ref # <<>>
                   /\ ~Includes(refs, ref)
                THEN Append(refs, ref) ELSE refs)

\* Git.getRefList(), up to the directory listing
GetRefListCall(p) ==
    /\ CanCall(p)
    /\ pc' = [pc EXCEPT ![p] = "grl:dir"]
    /\ loc' = [loc EXCEPT ![p] = [op |-> "getRefList", refs |-> <<>>]]
    /\ ret' = [ret EXCEPT ![p] = NoRet]
    /\ UNCHANGED <<files, objectCache>>
    /\ UNCHANGED this

\* the listing answers (ZeroPage.listDirectory gives [] for a directory that
\* does not exist); packed-refs is read next
GrlDir(p) ==
    /\ pc[p] = "grl:dir"
    /\ pc' = [pc EXCEPT ![p] = "grl:packed"]
    /\ loc' = [loc EXCEPT ![p].refs = RefsOfDir(DirList(files))]
    /\ UNCHANGED <<files, objectCache, ret>>
    /\ UNCHANGED this

\* the read of packed-refs answers; a failed read leaves the list as it is
GrlPacked(p) ==
    /\ pc[p] = "grl:packed"
    /\ pc' = [pc EXCEPT ![p] = "done"]
    /\ ret' = [ret EXCEPT ![p] =
                 Ok(IF FileExists(files, PACKED)
                    THEN PackedLoop(Split(files[PACKED], NL), loc[p].refs)
                    ELSE loc[p].refs)]
    /\ UNCHANGED <<files, objectCache, loc>>
    /\ UNCHANGED this

\* a packed-refs file: header, three refs, the peeled id of a tag
PackedTable ==
    <<"#", SP, "pack-refs with: peeled", NL,
      "c1", SP, HEADS, "dev", NL,
      "c0", SP, HEADS, "master", NL,
      "c1", SP, TAGS, "v2", NL,
      "^", "c0", NL>>

\* the contents each file of the lookup can have; <<>> stands for a file
\* that does not exist
LookupContents ==
    [f \in {HEAD, BranchRef(Master), TagRef(Master), TagRef(<<"v1">>),
            PACKED} |->
        IF f = HEAD
        THEN {<<>>, <<REFMARK, SP, HEADS, "master", NL>>, <<"c0", NL>>,
              <<REFMARK, SP, HEADS>>, <<REFMARK, SP, HEADS, "dev">>,
              <<REFMARK, SP, TAGS, "v1">>}
        ELSE IF f = BranchRef(Master)
        THEN {<<>>, <<"c0", NL>>, <<REFMARK, SP, HEADS, "dev">>}
        ELSE IF f = PACKED THEN {<<>>, PackedTable}
        ELSE {<<>>, <<"c1">>}]

\* names callers look up: branches, tags, a full id, the empty name
BranchNames ==
    {Master, <<"dev">>, <<"v1">>, <<"v2">>, <<"c0">>, <<>>}

InitLookup ==
    /\ \E c \in [DOMAIN LookupContents -> UNION {LookupContents[f] :
                                            f \in DOMAIN LookupContents}] :
          /\ \A f \in DOMAIN c : c[f] \in LookupContents[f]
          /\ files = [f \in {g \in DOMAIN c : c[g] # <<>>} |-> c[f]]
    /\ objectCache = <<>>
    /\ pc = [p \in Procs |-> "idle"]
    /\ loc = [p \in Procs |-> NoCall]
    /\ ret = [p \in Procs |-> NoRet]
    /\ this = <<>>

NextLookup ==
    \E p \in Callers :
        \/ \E branch \in BranchNames : GetBranchCommitCall(p, branch)
        \/ GbcHead(p)
        \/ GbcResolve(p)
        \/ GetRefListCall(p)
        \/ GrlDir(p)
        \/ GrlPacked(p)

SpecLookup == InitLookup /\ [][NextLookup]_vars

(***************************************************************************)
(* Git.writeCommit and its callers Repository.saveFile and the static      *)
(* Git.init.  Every backend write is one step and may fail, which makes    *)
(* the call throw.                                                         *)
(***************************************************************************)
\* the locals of a call that runs Git.writeCommit and then Git.setRef
CommitCall(op, path, content, branch) ==
    [op |-> op, path |-> path, content |-> content, branch |-> branch,
     ref |-> <<>>, parent |-> <<>>, parents |-> <<>>, message |-> <<>>,
     todo |-> <<>>, processed |-> <<>>, treeContent |-> <<>>,
     treeId |-> <<>>, commitId |-> <<>>]

\* Repository.saveFile(path, content, branch, message), the repository being
\* initialised: getAuthorString first reads the user's profile
SaveFileCall(p, path, content, branch) ==
    /\ CanCall(p)
    /\ pc' = [pc EXCEPT ![p] = "sf:profile"]
    /\ loc' = [loc EXCEPT ![p] = CommitCall("saveFile", path, content, branch)]
    /\ ret' = [ret EXCEPT ![p] = NoRet]
    /\ UNCHANGED <<files, objectCache>>
    /\ UNCHANGED this

\* the profile read answers (a failure gives the empty profile); then
\* getBranchCommit(branch) reads refs/heads/<branch>
SfProfile(p) ==
    /\ pc[p] = "sf:profile"
    /\ pc' = [pc EXCEPT ![p] = "sf:heads"]
    /\ loc' = [loc EXCEPT ![p].ref = BranchRef(loc[p].branch)]
    /\ UNCHANGED <<files, objectCache, ret>>
    /\ UNCHANGED this

\* one hop of getRef inside getBranchCommit: refs/heads/<branch>, and when
\* that fails refs/tags/<branch>.  With the parent resolved, writeCommit
\* starts: writeTreeRecursive writes the blob of the one tree item.
SfResolve(p) ==
    /\ pc[p] \in {"sf:heads", "sf:tags"}
    /\ LET hop == GetRefHop(files, loc[p].ref)
       IN IF hop.k = "next"
          THEN /\ loc' = [loc EXCEPT ![p].ref = hop.v]
               /\ UNCHANGED <<pc, ret>>
          ELSE IF hop.k = "ok"
          THEN /\ pc' = [pc EXCEPT ![p] = "wc:blob"]
               /\ loc' = [loc EXCEPT
                            ![p].parent = hop.v,
                            ![p].parents = <<hop.v>>,
                            ![p].message = <<"msg">>,
                            ![p].todo = <<[name |-> loc[p].path,
                                           type |-> BLOB,
                                           content |-> loc[p].content]>>]
               /\ UNCHANGED ret
          ELSE IF pc[p] = "sf:heads"
          THEN /\ pc' = [pc EXCEPT ![p] = "sf:tags"]
               /\ loc' = [loc EXCEPT ![p].ref = TagRef(loc[p].branch)]
               /\ UNCHANGED ret
          ELSE /\ pc' = [pc EXCEPT ![p] = "done"]
               /\ ret' = [ret EXCEPT ![p] = Err("Could not find branch")]
               /\ UNCHANGED loc
    /\ UNCHANGED <<files, objectCache>>
    /\ UNCHANGED this

\* Git.writeTreeRecursive: writeBlob for the next item that has no id
WcBlob(p) ==
    /\ pc[p] = "wc:blob"
    /\ LET item == Head(loc[p].todo)
           w == writeObject(files, BLOB, item.content)
       IN /\ files' = w.files
          /\ loc' = [loc EXCEPT
                       ![p].todo = Tail(@),
                       ![p].processed =
                           Append(@, [type |-> BLOB, name |-> item.name,
                                      id |-> w.id])]
          /\ pc' = [pc EXCEPT ![p] =
                      IF Tail(loc[p].todo) = <<>> THEN "wc:tree"
                      ELSE "wc:blob"]
    /\ UNCHANGED <<objectCache, ret>>
    /\ UNCHANGED this

\* Git.writeTree(processedItems)
WcTree(p) ==
    /\ pc[p] = "wc:tree"
    /\ LET content == TreeContent(SortItems(loc[p].processed))
           w == writeObject(files, TREE, content)
       IN /\ files' = w.files
          /\ loc' = [loc EXCEPT ![p].treeContent = content,
                                ![p].treeId = w.id]
    /\ pc' = [pc EXCEPT ![p] = "wc:commit"]
    /\ UNCHANGED <<objectCache, ret>>
    /\ UNCHANGED this

\* Git.writeCommit writes the commit object; the caller then calls setRef
WcCommit(p) ==
    /\ pc[p] = "wc:commit"
    /\ LET w == writeObject(files, COMMIT,
                    CommitContent(loc[p].treeId,
                        [parents |-> loc[p].parents, author |-> Author,
                         committer |-> Author, message |-> loc[p].message]))
       IN /\ files' = w.files
          /\ loc' = [loc EXCEPT ![p].commitId = w.id]
    /\ pc' = [pc EXCEPT ![p] = "setRef"]
    /\ UNCHANGED <<objectCache, ret>>
    /\ UNCHANGED this

\* Git.setRef(`refs/heads/${branch}`, commitId), the last step of saveFile
\* and of Git.init
SetRef(p) ==
    /\ pc[p] = "setRef"
    /\ files' = SetRefFile(files, BranchRef(loc[p].branch), loc[p].commitId)
    /\ pc' = [pc EXCEPT ![p] = "done"]
    /\ ret' = [ret EXCEPT ![p] =
                 IF loc[p].op = "init" THEN Ok(<<"Git">>)
                 ELSE Ok(loc[p].commitId)]
    /\ UNCHANGED <<objectCache, loc>>
    /\ UNCHANGED this

\* the files Git.init writes before the initial commit
InitFiles ==
    [HEAD |-> <<REFMARK, SP, HEADS, "master">>,
     description |-> <<"Git Center repository">>,
     config |-> <<"[core]", NL, "[receive]">>]

\* static Git.init(root, zeroPage, name, email) on a new root
GitInitCall(p) ==
    /\ CanCall(p)
    /\ ~FileExists(files, HEAD)
    /\ pc' = [pc EXCEPT ![p] = "gi:HEAD"]
    /\ loc' = [loc EXCEPT ![p] = CommitCall("init", <<>>, <<>>, Master)]
    /\ ret' = [ret EXCEPT ![p] = NoRet]
    /\ UNCHANGED <<files, objectCache>>
    /\ UNCHANGED this

\* HEAD, description and config are written in this order; then
\* writeCommit({tree: [], parents: [], ...}) writes the empty tree
GiWrite(p) ==
    /\ pc[p] \in {"gi:HEAD", "gi:description", "gi:config"}
    /\ files' = IF pc[p] = "gi:HEAD"
                THEN WriteFile(files, HEAD, InitFiles.HEAD)
                ELSE IF pc[p] = "gi:description"
                THEN WriteFile(files, <<"description">>, InitFiles.description)
                ELSE WriteFile(files, <<"config">>, InitFiles.config)
    /\ pc' = [pc EXCEPT ![p] =
                IF pc[p] = "gi:HEAD" THEN "gi:description"
                ELSE IF pc[p] = "gi:description" THEN "gi:config"
                ELSE "wc:tree"]
    /\ loc' = [loc EXCEPT ![p].message = <<"Initial commit">>]
    /\ UNCHANGED <<objectCache, ret>>
    /\ UNCHANGED this

WritePcs ==
    {"wc:blob", "wc:tree", "wc:commit", "setRef",
     "gi:HEAD", "gi:description", "gi:config"}

\* the backend rejects the write a call waits for: nothing is written and
\* the call throws
WriteFails(p) ==
    /\ pc[p] \in WritePcs
    /\ pc' = [pc EXCEPT ![p] = "done"]
    /\ ret' = [ret EXCEPT ![p] = Err("write failed")]
    /\ UNCHANGED <<files, objectCache, loc>>
    /\ UNCHANGED this

\* what callers save
SaveInputs ==
    {<<<<"a.txt">>, <<"x">>>>, <<<<"src", "/", "main.js">>, <<"y">>>>}

Init ==
    /\ files \in {<<>>, ImportedFiles}
    /\ objectCache = <<>>
    /\ pc = [p \in Procs |-> "idle"]
    /\ loc = [p \in Procs |-> NoCall]
    /\ ret = [p \in Procs |-> NoRet]
    /\ this = <<>>

Next ==
    \E p \in Procs :
        \/ \E in \in SaveInputs : SaveFileCall(p, in[1], in[2], Master)
        \/ SfProfile(p)
        \/ SfResolve(p)
        \/ WcBlob(p)
        \/ WcTree(p)
        \/ WcCommit(p)
        \/ SetRef(p)
        \/ GitInitCall(p)
        \/ GiWrite(p)
        \/ WriteFails(p)

Spec == Init /\ [][Next]_vars

(***************************************************************************)
(* Repository.getFile(branch, path) next to saveFile: readBranchCommit      *)
(* resolves the branch and decodes its commit, readTreeItem walks from the *)
(* commit's tree, and the object found has to be a blob.                   *)
(***************************************************************************)
\* what the caller's last call saved under branch and path, when that call
\* was a saveFile that succeeded: a list of at most one content
LastSaved(p, branch, path) ==
    IF /\ pc[p] = "done"
       /\ loc[p].op = "saveFile"
       /\ ret[p].st = "ok"
       /\ loc[p].branch = branch
       /\ loc[p].path = path
    THEN <<loc[p].content>> ELSE <<>>

\* Repository.getFile(branch, path), the repository being initialised:
\* getBranchCommit(branch) reads refs/heads/<branch>
GetFileCall(p, branch, path) ==
    /\ CanCall(p)
    /\ pc' = [pc EXCEPT ![p] = "gf:heads"]
    /\ loc' = [loc EXCEPT ![p] =
                 [op |-> "getFile", branch |-> branch, arg |-> path,
                  ref |-> BranchRef(branch), id |-> <<>>, tree |-> <<>>,
                  path |-> Segments(path),
                  wrote |-> LastSaved(p, branch, path)]]
    /\ ret' = [ret EXCEPT ![p] = NoRet]
    /\ UNCHANGED <<files, objectCache>>
    /\ UNCHANGED this

\* getFile with the outcome w of readTreeItem: a missing object is read
\* from the backend, an error is thrown on, and an object that is no blob
\* makes getFile throw
GfItem(p, call, w) ==
    /\ objectCache' = w.cache
    /\ loc' = [loc EXCEPT ![p] =
                 [call EXCEPT !.tree = w.tree, !.path = w.path]]
    /\ IF w.k = "miss"
       THEN /\ pc' = [pc EXCEPT ![p] = "gf:item"]
            /\ ret' = [ret EXCEPT ![p] = NoRet]
       ELSE /\ pc' = [pc EXCEPT ![p] = "done"]
            /\ ret' = [ret EXCEPT ![p] =
                         IF w.k = "err" THEN Err(w.e)
                         ELSE IF w.v.type # BLOB
                         THEN Err("Path is not a file")
                         ELSE Ok(w.v.content)]

\* readBranchCommit with the object call.id in cache: readUnknownObject
\* decodes it in place and getFile calls readTreeItem(commit.content.tree,
\* path).  An object that is no commit has no tree field, and readObject
\* fails on the undefined id.
GfCommit(p, call, cache) ==
    LET commit == Decode(cache[call.id])
        cache2 == [cache EXCEPT ![call.id] = commit]
    IN IF commit.type = COMMIT
       THEN GfItem(p, call,
                Walk(cache2, commit.content.v.tree, call.path))
       ELSE /\ objectCache' = cache2
            /\ pc' = [pc EXCEPT ![p] = "done"]
            /\ loc' = [loc EXCEPT ![p] = call]
            /\ ret' = [ret EXCEPT ![p] = Err("Failed to read object")]

\* one hop of getRef inside getBranchCommit: refs/heads/<branch>, and when
\* that fails refs/tags/<branch>; with the id resolved, readUnknownObject
\* takes the commit from the cache or asks the backend
GfResolve(p) ==
    /\ pc[p] \in {"gf:heads", "gf:tags"}
    /\ LET hop == GetRefHop(files, loc[p].ref)
       IN IF hop.k = "next"
          THEN /\ loc' = [loc EXCEPT ![p].ref = hop.v]
               /\ UNCHANGED <<pc, ret, objectCache>>
          ELSE IF hop.k = "ok"
          THEN IF CacheHas(objectCache, hop.v)
               THEN GfCommit(p, [loc[p] EXCEPT !.id = hop.v], objectCache)
               ELSE /\ pc' = [pc EXCEPT ![p] = "gf:commit"]
                    /\ loc' = [loc EXCEPT ![p].id = hop.v]
                    /\ UNCHANGED <<ret, objectCache>>
          ELSE IF pc[p] = "gf:heads"
          THEN /\ pc' = [pc EXCEPT ![p] = "gf:tags"]
               /\ loc' = [loc EXCEPT ![p].ref = TagRef(loc[p].branch)]
               /\ UNCHANGED <<ret, objectCache>>
          ELSE /\ pc' = [pc EXCEPT ![p] = "done"]
               /\ ret' = [ret EXCEPT ![p] = Err("Could not find branch")]
               /\ UNCHANGED <<loc, objectCache>>
    /\ UNCHANGED files
    /\ UNCHANGED this

\* the backend answers the read of the commit object
GfCommitIO(p) ==
    /\ pc[p] = "gf:commit"
    /\ IF FileExists(files, ObjectPath(loc[p].id))
       THEN GfCommit(p, loc[p],
                CachePut(objectCache, loc[p].id,
                         UnpackedObject(files, loc[p].id)))
       ELSE /\ pc' = [pc EXCEPT ![p] = "done"]
            /\ ret' = [ret EXCEPT ![p] = Err("Failed to read object")]
            /\ UNCHANGED <<objectCache, loc>>
    /\ UNCHANGED files
    /\ UNCHANGED this

\* the backend answers the read of the object the walk stopped at
GfItemIO(p) ==
    /\ pc[p] = "gf:item"
    /\ IF FileExists(files, ObjectPath(loc[p].tree))
       THEN GfItem(p, loc[p],
                Walk(CachePut(objectCache, loc[p].tree,
                              UnpackedObject(files, loc[p].tree)),
                     loc[p].tree, loc[p].path))
       ELSE /\ pc' = [pc EXCEPT ![p] = "done"]
            /\ ret' = [ret EXCEPT ![p] = Err("Failed to read object")]
            /\ UNCHANGED <<objectCache, loc>>
    /\ UNCHANGED files
    /\ UNCHANGED this

\* saveFile, Git.init and getFile as one caller after the other issues them
NextGetFile ==
    \E p \in Callers :
        \/ \E in \in SaveInputs : SaveFileCall(p, in[1], in[2], Master)
        \/ SfProfile(p)
        \/ SfResolve(p)
        \/ WcBlob(p)
        \/ WcTree(p)
        \/ WcCommit(p)
        \/ SetRef(p)
        \/ GitInitCall(p)
        \/ GiWrite(p)
        \/ WriteFails(p)
        \/ \E in \in SaveInputs : GetFileCall(p, Master, in[1])
        \/ GfResolve(p)
        \/ GfCommitIO(p)
        \/ GfItemIO(p)

SpecGetFile == Init /\ [][NextGetFile]_vars

(***************************************************************************)
(* Claims about saveFile and Git.init (Spec).                              *)
(***************************************************************************)
\* the content of the branch ref file, trimmed; <<>> when there is none
RefValue(fs, branch) ==
    IF FileExists(fs, BranchRef(branch)) THEN Trim(fs[BranchRef(branch)])
    ELSE <<>>

\* C2: publishing a commit is compare-and-set: when the ref's value at the
\* moment of the update differs from the parent the commit was built on,
\* the call fails and the ref keeps its value; the ref is written only when
\* its value equals the expected parent.
C2_PublishCompareAndSet ==
    [][\A p \in Procs :
          (/\ pc[p] = "setRef"
           /\ loc[p].op = "saveFile"
           /\ pc'[p] = "done"
           /\ RefValue(files, loc[p].branch) # loc[p].parent)
          => (/\ ret'[p].st = "err"
              /\ RefValue(files', loc[p].branch)
                    = RefValue(files, loc[p].branch))]_vars

\* the commit stored under an id, read from the backend alone
StoredCommit(fs, id) ==
    IF FileExists(fs, ObjectPath(id))
    THEN parseCommit(UnpackedObject(fs, id).content).v
    ELSE EmptyCommit

\* the ids reachable from id along parents
RECURSIVE Ancestors(_, _, _)
Ancestors(fs, id, visited) ==
    IF id \in visited \/ ~FileExists(fs, ObjectPath(id)) THEN visited
    ELSE LET parents == StoredCommit(fs, id).parents
         IN IF parents = <<>> THEN visited \cup {id}
            ELSE Ancestors(fs, parents[1], visited \cup {id})

\* C3: when two saveFile calls on one branch both read the same base before
\* either sets the ref, both succeed, the ref ends at the commit of the call
\* whose setRef ran last, that commit's parent is the common base, and the
\* other call's commit is not reachable from the ref.
C3_LostUpdate ==
    [][\A p \in Procs : \A o \in Procs \ {p} :
          (/\ pc[p] = "setRef" /\ loc[p].op = "saveFile"
           /\ pc'[p] = "done" /\ ret'[p].st = "ok"
           /\ pc[o] = "done" /\ loc[o].op = "saveFile" /\ ret[o].st = "ok"
           /\ loc[o].branch = loc[p].branch
           /\ loc[o].parent = loc[p].parent
           /\ isSha(loc[p].parent))
          => (/\ RefValue(files', loc[p].branch) = ret'[p].v
              /\ StoredCommit(files', ret'[p].v).parents = <<loc[p].parent>>
              /\ ret[o].v \notin
                    Ancestors(files', RefValue(files', loc[p].branch), {}))]_vars

\* the files (path as a list of names, id) below a list of tree entries,
\* subtrees read from the backend
RECURSIVE FlatFiles(_, _, _, _)
FlatFiles(fs, items, prefix, depth) ==
    IF items = <<>> THEN {}
    ELSE LET e == Head(items)
             rest == FlatFiles(fs, Tail(items), prefix, depth)
         IN IF e.type = TREE /\ depth > 0 /\ FileExists(fs, ObjectPath(e.id))
            THEN FlatFiles(fs,
                     parseTree(UnpackedObject(fs, e.id).content).v,
                     Append(prefix, e.name), depth - 1) \cup rest
            ELSE {[path |-> Append(prefix, e.name), id |-> e.id]} \cup rest

\* deepest tree nesting followed when listing files
MaxTreeDepth == 3

\* the files of the tree of a stored commit
CommitFiles(fs, commitId) ==
    LET treeId == StoredCommit(fs, commitId).tree
    IN IF FileExists(fs, ObjectPath(treeId))
       THEN FlatFiles(fs, parseTree(UnpackedObject(fs, treeId).content).v,
                      <<>>, MaxTreeDepth)
       ELSE {}

\* C5: after saveFile(path, ...) succeeds, every file the branch's previous
\* commit tree held at another path is still in the new commit's tree with
\* the same id.
C5_OtherFilesKept ==
    \A p \in Procs :
        (/\ pc[p] = "done"
         /\ loc[p].op = "saveFile"
         /\ ret[p].st = "ok"
         /\ isSha(loc[p].parent))
        => \A f \in CommitFiles(files, loc[p].parent) :
              f.path # Segments(loc[p].path)
              => f \in FlatFiles(files,
                           parseTree(Bytes(loc[p].treeContent)).v,
                           <<>>, MaxTreeDepth)

IsRefPath(q) == q = HEAD \/ q[1] \in {HEADS, TAGS}

\* the content a ref resolves to along symbolic pointers; <<>> when a file
\* on the way is missing or a name comes twice
RECURSIVE Resolved(_, _, _)
Resolved(fs, ref, visited) ==
    IF ~FileExists(fs, ref) \/ ref \in visited THEN <<>>
    ELSE LET c == Trim(fs[ref])
         IN IF c # <<>> /\ c[1] = REFMARK
            THEN Resolved(fs, Trim(Tail(c)), visited \cup {ref})
            ELSE c

\* C6: every ref that is set resolves to a stored object: no symbolic ref
\* points at a ref that does not exist, no direct ref names an id that is
\* not stored, in any state, the states inside Git.init and saveFile and
\* those a failed step leaves included.
C6_RefsResolve ==
    \A q \in DOMAIN files :
        IsRefPath(q)
        => (/\ Resolved(files, q, {}) # <<>>
            /\ FileExists(files, ObjectPath(Resolved(files, q, {}))))

\* C13: writeCommit writes a commit whose tree field is the id of the tree
\* built from the edits and whose parents are the given parents in order;
\* for a single blob edit the tree stored under that id has exactly one
\* entry, of kind blob, with the edit's name.
C13_CommitOfEdits ==
    [][\A p \in Procs :
          (pc[p] = "wc:commit" /\ pc'[p] = "setRef")
          => LET c == StoredCommit(files', loc'[p].commitId)
                 t == UnpackedObject(files', c.tree)
                 items == parseTree(t.content).v
             IN /\ c.tree = loc[p].treeId
                /\ c.parents = loc[p].parents
                /\ loc[p].op = "saveFile"
                      => /\ t.type = TREE
                         /\ Len(items) = 1
                         /\ items[1].type = BLOB
                         /\ items[1].name = loc[p].path]_vars

\* C14: writeCommit has no ref side effect: across its steps, successful or
\* failed, every file outside objects/ keeps its content, and none is
\* created or removed.
C14_CommitLeavesRefs ==
    [][\A p \in Procs :
          (pc[p] \in {"wc:blob", "wc:tree", "wc:commit"} /\ Moved(p))
          => \A q \in DOMAIN files \cup DOMAIN files' :
                ~IsObjectPath(q)
                => (q \in DOMAIN files /\ q \in DOMAIN files'
                    /\ files'[q] = files[q])]_vars

\* writeCommit has written its commit on top of c0 and the branch ref still
\* holds c0
C14_CommitWritten ==
    \E p \in Procs :
        /\ pc[p] = "setRef"
        /\ loc[p].op = "saveFile"
        /\ StoredCommit(files, loc[p].commitId).parents = <<<<"c0">>>>
        /\ files[BranchRef(Master)] = <<"c0", NL>>
        /\ files[HEAD] = <<REFMARK, SP, HEADS, "master", NL>>

(***************************************************************************)
(* Claims about name lookup (SpecLookup).                                  *)
(***************************************************************************)
\* the lines <id> <name> of the packed-ref table
PackedEntries(fs) ==
    IF ~FileExists(fs, PACKED) THEN {}
    ELSE LET lines == Split(fs[PACKED], NL)
         IN {Split(lines[i], SP) : i \in
                {j \in 1..Len(lines) :
                    /\ Len(Split(lines[j], SP)) = 2
                    /\ isSha(Split(lines[j], SP)[1])}}

\* the id the packed-ref table lists for a branch or tag name; <<>> when it
\* lists none
PackedId(fs, name) ==
    LET hits == {e \in PackedEntries(fs) :
                    e[2] \in {BranchRef(name), TagRef(name)}}
    IN IF hits = {} THEN <<>> ELSE (CHOOSE e \in hits : TRUE)[1]

\* C15: getBranchCommit(name), name no full id and not empty, resolves
\* refs/heads/<name> first, then refs/tags/<name>; when neither loose ref
\* exists it returns the id the packed-ref table lists for the name, and it
\* fails only when the table lists none either.
C15_PackedFallback ==
    \A p \in Procs :
        (/\ pc[p] = "done"
         /\ loc[p].op = "getBranchCommit"
         /\ ~isSha(loc[p].arg)
         /\ loc[p].arg # <<>>)
        => LET H == BranchRef(loc[p].arg)
               T == TagRef(loc[p].arg)
               id == PackedId(files, loc[p].arg)
           IN /\ ChainEnd(files, H, {}) # <<>>
                    => ret[p] = Ok(ChainEnd(files, H, {}))
              /\ (~FileExists(files, H) /\ ChainEnd(files, T, {}) # <<>>)
                    => ret[p] = Ok(ChainEnd(files, T, {}))
              /\ (~FileExists(files, H) /\ ~FileExists(files, T))
                    => IF id # <<>> THEN ret[p] = Ok(id)
                       ELSE ret[p].st = "err"

\* the names of the loose refs and of the refs in the packed-ref table
LooseRefs(fs) == {q \in DOMAIN fs : q[1] \in {HEADS, TAGS}}

PackedRefs(fs) == {e[2] : e \in PackedEntries(fs)}

\* C16: getRefList returns the union of the loose ref names and the
\* packed-ref table names, each name exactly once.
C16_RefListIsUnion ==
    \A p \in Procs :
        (pc[p] = "done" /\ loc[p].op = "getRefList")
        => /\ {ret[p].v[i] : i \in 1..Len(ret[p].v)}
                 = LooseRefs(files) \cup PackedRefs(files)
           /\ \A i, j \in 1..Len(ret[p].v) :
                 i # j => ret[p].v[i] # ret[p].v[j]

\* C22: getBranchCommit(x) for a full id x returns x unchanged at once and
\* issues no backend read or write.
C22_FullIdUntouched ==
    [][\A p \in Procs :
          (/\ CanCall(p)
           /\ Moved(p)
           /\ loc'[p].op = "getBranchCommit"
           /\ \E h \in HexIds : loc'[p].arg = <<h>>)
          => /\ pc'[p] = "done"
             /\ ret'[p] = Ok(loc'[p].arg)
             /\ loc'[p].reads = 0
             /\ files' = files]_vars

\* getBranchCommit('c0') has returned c0 without a read
C22_FullIdReturned ==
    \E p \in Procs :
        /\ pc[p] = "done"
        /\ loc[p].op = "getBranchCommit"
        /\ loc[p].arg = <<"c0">>
        /\ loc[p].reads = 0
        /\ ret[p] = Ok(<<"c0">>)

\* C23: getBranchCommit('') resolves through HEAD: it returns the id that
\* resolving the ref HEAD points to gives (the id in HEAD when HEAD holds
\* one), and it returns no other id.
C23_EmptyNameIsHead ==
    \A p \in Procs :
        (/\ pc[p] = "done"
         /\ loc[p].op = "getBranchCommit"
         /\ loc[p].arg = <<>>)
        => LET id == ChainEnd(files, HEAD, {})
           IN /\ id # <<>> => ret[p] = Ok(id)
              /\ ret[p].st = "ok" => ret[p].v = id

\* C24: getRefList never fails; without loose refs it returns the names of
\* the packed-ref table, each once, without packed-refs it returns the
\* entries the directory listing gave, and with neither the empty list.
C24_MissingSourceTolerated ==
    \A p \in Procs :
        (pc[p] = "done" /\ loc[p].op = "getRefList")
        => /\ ret[p].st = "ok"
           /\ LooseRefs(files) = {}
                 => /\ {ret[p].v[i] : i \in 1..Len(ret[p].v)}
                          = PackedRefs(files)
                    /\ \A i, j \in 1..Len(ret[p].v) :
                          i # j => ret[p].v[i] # ret[p].v[j]
           /\ ~FileExists(files, PACKED) => ret[p].v = loc[p].refs
           /\ (LooseRefs(files) = {} /\ ~FileExists(files, PACKED))
                 => ret[p].v = <<>>

\* getRefList has returned the three names of the packed-ref table from a
\* repository without a refs directory
C24_PackedOnly ==
    \E p \in Procs :
        /\ pc[p] = "done"
        /\ loc[p].op = "getRefList"
        /\ LooseRefs(files) = {}
        /\ FileExists(files, PACKED)
        /\ ret[p].st = "ok"
        /\ Len(ret[p].v) = 3

\* C30: getBranchCommit('') terminates for every content of HEAD: HEAD is
\* read once, and the call is not entered again with the empty name.
C30_HeadReadOnce ==
    \A p \in Procs : pc[p] = "gbc:head" => loc[p].heads = 0

\* path q is not the same file before and after the step
Changed(q) ==
    \/ (q \in DOMAIN files) # (q \in DOMAIN files')
    \/ (q \in DOMAIN files /\ q \in DOMAIN files' /\ files'[q] # files[q])

\* C26: saveFile never changes HEAD: the steps of a saveFile call write
\* refs/heads/<branch> and object paths only.
C26_SaveFileKeepsHead ==
    [][\A p \in Procs :
          (Moved(p) /\ loc[p].op = "saveFile")
          => /\ ~Changed(HEAD)
             /\ \A q \in DOMAIN files \cup DOMAIN files' :
                   Changed(q)
                   => (q = BranchRef(loc[p].branch) \/ IsObjectPath(q))]_vars

\* a saveFile has moved refs/heads/master and HEAD is as it was imported
C26_SavedUnderHead ==
    \E p \in Procs :
        /\ pc[p] = "done"
        /\ loc[p].op = "saveFile"
        /\ ret[p].st = "ok"
        /\ FileExists(files, HEAD)
        /\ files[HEAD] = ImportedFiles[HEAD]
        /\ FileExists(files, BranchRef(Master))
        /\ files[BranchRef(Master)] = ret[p].v
        /\ files[BranchRef(Master)] # ImportedFiles[BranchRef(Master)]

\* C29: in saveFile the branch ref is written only after the blob, the tree
\* and the commit have been written; a saveFile that throws leaves the ref
\* with the value it had.
C29_RefWrittenLast ==
    [][\A p \in Procs :
          (Moved(p) /\ loc[p].op = "saveFile")
          => /\ Changed(BranchRef(loc[p].branch))
                => /\ pc[p] = "setRef"
                   /\ ret'[p].st = "ok"
                   /\ loc[p].processed # <<>>
                   /\ \A i \in 1..Len(loc[p].processed) :
                         FileExists(files, ObjectPath(loc[p].processed[i].id))
                   /\ loc[p].treeId # <<>>
                   /\ FileExists(files, ObjectPath(loc[p].treeId))
                   /\ loc[p].commitId # <<>>
                   /\ FileExists(files, ObjectPath(loc[p].commitId))
                   /\ files'[BranchRef(loc[p].branch)] = loc[p].commitId
             /\ (pc'[p] = "done" /\ ret'[p].st = "err")
                => ~Changed(BranchRef(loc[p].branch))]_vars

\* a saveFile has thrown after its blob was written and refs/heads/master
\* holds what was imported
C29_FailedBeforeRef ==
    \E p \in Procs :
        /\ pc[p] = "done"
        /\ loc[p].op = "saveFile"
        /\ ret[p].st = "err"
        /\ loc[p].processed # <<>>
        /\ FileExists(files, BranchRef(Master))
        /\ files[BranchRef(Master)] = ImportedFiles[BranchRef(Master)]

\* C27: read-your-write: when a saveFile(path, content, branch) has
\* succeeded and the same caller, nobody else using the repository, then
\* calls getFile(branch, path), getFile returns exactly content.
C27_ReadYourWrite ==
    \A p \in Procs :
        (/\ pc[p] = "done"
         /\ loc[p].op = "getFile"
         /\ loc[p].wrote # <<>>
         /\ \A o \in Procs \ {p} : loc[o] = NoCall)
        => ret[p] = Ok(Bytes(loc[p].wrote[1]))

(***************************************************************************)
(* ZeroFrame: requests posted to the wrapper window and the responses the  *)
(* wrapper posts back.  this holds the fields nextMessageId,               *)
(* waitingCallbacks and isConnected; posted is what this.target has been   *)
(* sent, in order; answered, invoked and last record the requests that a   *)
(* response has arrived for, how often the callback of each request ran    *)
(* (counted up to 2) and the message onMessage handled last.  A call chain that awaits cmd() is resumed by   *)
(* the callback of its request.                                            *)
(***************************************************************************)
\* ids send hands out before the model stops sending
MaxMessageId == 4

CMD_INNER_READY == "innerReady"
CMD_RESPONSE == "response"
CMD_WRAPPER_READY == "wrapperReady"
CMD_PING == "ping"
CMD_PONG == "pong"

\* the callback of a cmd() whose promise nobody awaits
Dropped == 0

\* ZeroFrame.send(message, callback): the fields after the call; callback
\* is <<>> for null and <<c>> for the callback that resumes c
send(zf, message, callback) ==
    [zf EXCEPT
        !.nextMessageId = @ + 1,
        !.posted = Append(@, [cmd |-> message, id |-> zf.nextMessageId]),
        !.waitingCallbacks =
            IF callback # <<>>
            THEN [i \in DOMAIN @ \cup {zf.nextMessageId} |->
                     IF i = zf.nextMessageId THEN callback[1] ELSE @[i]]
            ELSE @]

\* handleResponse that leaves the callback in waitingCallbacks
handleResponse_keeps(waiting, to) ==
    IF to \in DOMAIN waiting
    THEN [callback |-> <<waiting[to]>>, waiting |-> waiting]
    ELSE [callback |-> <<>>, waiting |-> waiting]

\* ZeroFrame.handleResponse: the callback to run, if any, and
\* waitingCallbacks after the call
handleResponse(waiting, to) ==
    IF to \in DOMAIN waiting
    THEN [callback |-> <<waiting[to]>>,
          waiting |-> [i \in DOMAIN waiting \ {to} |-> waiting[i]]]
    ELSE [callback |-> <<>>, waiting |-> waiting]

\* results the wrapper answers with
Results == {"r1", "r2"}

\* the ZeroFrame constructor: connect() sends innerReady with id 1
InitZeroFrame ==
    /\ this = send([nextMessageId |-> 1, waitingCallbacks |-> <<>>,
                    isConnected |-> FALSE, posted |-> <<>>,
                    answered |-> {},
                    invoked |-> [i \in 1..MaxMessageId |-> 0],
                    last |-> [cmd |-> "none"]],
                   CMD_INNER_READY, <<Dropped>>)
    /\ files = <<>>
    /\ objectCache = <<>>
    /\ pc = [p \in Procs |-> "idle"]
    /\ loc = [p \in Procs |-> NoCall]
    /\ ret = [p \in Procs |-> NoRet]

\* ZeroFrame.cmd(cmd, params) awaited by call chain p
CmdCall(p, cmd) ==
    /\ CanCall(p)
    /\ this.nextMessageId <= MaxMessageId
    /\ this' = send(this, cmd, <<p>>)
    /\ pc' = [pc EXCEPT ![p] = "cmd"]
    /\ loc' = [loc EXCEPT ![p] =
                 [op |-> "cmd", cmd |-> cmd, id |-> this.nextMessageId]]
    /\ ret' = [ret EXCEPT ![p] = NoRet]
    /\ UNCHANGED <<files, objectCache>>

\* onMessage with a response: handleResponse runs the callback of the
\* request message.to, which resolves the promise of that cmd()
OnResponse(to, result) ==
    LET h == handleResponse(this.waitingCallbacks, to)
        message == [cmd |-> CMD_RESPONSE, to |-> to, result |-> result]
    IN /\ this' = [this EXCEPT
                     !.waitingCallbacks = h.waiting,
                     !.answered = IF to < this.nextMessageId
                                  THEN @ \cup {to} ELSE @,
                     !.invoked = IF h.callback = <<>> THEN @
                                 ELSE [@ EXCEPT ![to] = Min(@ + 1, 2)],
                     !.last = message]
       /\ IF h.callback # <<>> /\ h.callback[1] # Dropped
          THEN /\ pc' = [pc EXCEPT ![h.callback[1]] = "done"]
               /\ ret' = [ret EXCEPT ![h.callback[1]] = Ok(result)]
          ELSE UNCHANGED <<pc, ret>>
       /\ UNCHANGED <<files, objectCache, loc>>

\* onMessage with wrapperReady: innerReady is sent again
OnWrapperReady ==
    /\ this.nextMessageId <= MaxMessageId
    /\ this' = [send(this, CMD_INNER_READY, <<Dropped>>) EXCEPT
                  !.isConnected = TRUE,
                  !.last = [cmd |-> CMD_WRAPPER_READY]]
    /\ UNCHANGED <<files, objectCache, pc, loc, ret>>

\* onMessage with ping: response(message.id, pong) sends without a callback
OnPing ==
    /\ this.nextMessageId <= MaxMessageId
    /\ this' = [send(this, CMD_PONG, <<>>) EXCEPT
                  !.last = [cmd |-> CMD_PING]]
    /\ UNCHANGED <<files, objectCache, pc, loc, ret>>

\* callers send requests; the wrapper answers any id, in any order and any
\* number of times
NextZeroFrame ==
    \/ \E p \in Procs : CmdCall(p, "fileGet")
    \/ \E to \in 1..MaxMessageId, result \in Results : OnResponse(to, result)
    \/ OnWrapperReady
    \/ OnPing

SpecZeroFrame == InitZeroFrame /\ [][NextZeroFrame]_vars

\* C31: message ids are unique and strictly increasing; waitingCallbacks
\* holds exactly the ids of the requests sent with a callback and not yet
\* answered; a response with to = i resolves the promise of request i and
\* of no other request, and the callback of a request runs at most once
\* however often and in whatever order responses arrive.
C31_Correlation ==
    [][/\ \A k \in 1..Len(this'.posted) :
             /\ this'.posted[k].id = k
             /\ this'.posted[k].id < this'.nextMessageId
       /\ DOMAIN this'.waitingCallbacks
             = {this'.posted[k].id : k \in
                   {j \in 1..Len(this'.posted) :
                       this'.posted[j].cmd # CMD_PONG}}
               \ this'.answered
       /\ \A i \in 1..MaxMessageId : this'.invoked[i] <= 1
       /\ \A p \in Procs :
             (pc[p] = "cmd" /\ pc'[p] = "done")
             => /\ this'.last.cmd = CMD_RESPONSE
                /\ this'.last.to = loc[p].id
                /\ ret'[p] = Ok(this'.last.result)
                /\ \A o \in Procs \ {p} : pc'[o] = pc[o] /\ ret'[o] = ret[o]
       /\ \A p \in Procs :
             (pc[p] = "cmd" /\ loc[p].id \in this'.answered \ this.answered)
             => (pc'[p] = "done" /\ ret'[p] = Ok(this'.last.result))]_vars

\* request 3 has been answered while request 2 still waits, and a second
\* response to 3, with another result, has arrived since
C31_OutOfOrderTwice ==
    /\ 2 \in DOMAIN this.waitingCallbacks
    /\ this.invoked[3] = 1
    /\ this.last.cmd = CMD_RESPONSE
    /\ this.last.to = 3
    /\ this.last.result = "r2"
    /\ \E p \in Procs :
          /\ loc[p].op = "cmd" /\ loc[p].id = 3
          /\ pc[p] = "done" /\ ret[p] = Ok("r1")

(***************************************************************************)
(* Repository.init(): this holds the fields content, vcs and               *)
(* isInitialized; vcs is <<>> for null or the engine instance, numbered in *)
(* the order of construction.  created counts the engines constructed and  *)
(* reads the reads of content.json that were answered with the manifest,   *)
(* both up to 2.  A call chain is a public method that awaits init() and   *)
(* then goes on with this.vcs, which its locals keep.                      *)
(***************************************************************************)
CONTENT_JSON == <<"content.json">>

\* the manifests a site can have: of a git repository, of an hg repository,
\* of neither
Manifests == {<<"git">>, <<"hg">>, <<"other">>}

\* the Repository constructor, over a site with or without a manifest
InitRepository ==
    /\ \/ files = <<>>
       \/ \E m \in Manifests : files = [q \in {CONTENT_JSON} |-> m]
    /\ this = [content |-> <<>>, vcs |-> <<>>, isInitialized |-> FALSE,
               created |-> 0, reads |-> 0]
    /\ objectCache = <<>>
    /\ pc = [p \in Procs |-> "idle"]
    /\ loc = [p \in Procs |-> NoCall]
    /\ ret = [p \in Procs |-> NoRet]

\* Repository.init with the manifest content at hand: the engine is
\* constructed and assigned, its own init() is awaited next; a manifest
\* without git or hg makes init throw
RiConstruct(p, repo, content) ==
    IF content \in {<<"git">>, <<"hg">>}
    THEN /\ this' = [repo EXCEPT
                       !.content = content,
                       !.vcs = <<content[1], repo.created + 1>>,
                       !.created = Min(@ + 1, 2)]
         /\ objectCache' = <<>>
         /\ pc' = [pc EXCEPT ![p] = "ri:vcs"]
         /\ ret' = [ret EXCEPT ![p] = NoRet]
    ELSE /\ this' = [repo EXCEPT !.content = content]
         /\ pc' = [pc EXCEPT ![p] = "done"]
         /\ ret' = [ret EXCEPT ![p] = Err("Repository type not supported")]
         /\ UNCHANGED objectCache

\* Repository.init(), as getBranches, getFiles, getFile and saveFile call
\* it: it returns at once when isInitialized; getContent returns the
\* content it has or asks the backend for content.json
RepoInitCall(p, method) ==
    /\ CanCall(p)
    /\ IF this.isInitialized
       THEN /\ pc' = [pc EXCEPT ![p] = "done"]
            /\ loc' = [loc EXCEPT ![p] = [op |-> method, vcs |-> this.vcs]]
            /\ ret' = [ret EXCEPT ![p] = Ok(<<>>)]
            /\ UNCHANGED <<this, objectCache>>
       ELSE /\ loc' = [loc EXCEPT ![p] = [op |-> method, vcs |-> <<>>]]
            /\ IF this.content # <<>>
               THEN RiConstruct(p, this, this.content)
               ELSE /\ pc' = [pc EXCEPT ![p] = "ri:read"]
                    /\ ret' = [ret EXCEPT ![p] = NoRet]
                    /\ UNCHANGED <<this, objectCache>>
    /\ UNCHANGED files

\* the read of content.json answers: getContent stores the parsed manifest
\* and init goes on, or getContent throws
RiRead(p) ==
    /\ pc[p] = "ri:read"
    /\ IF FileExists(files, CONTENT_JSON)
       THEN RiConstruct(p, [this EXCEPT !.reads = Min(@ + 1, 2)],
                        files[CONTENT_JSON])
       ELSE /\ pc' = [pc EXCEPT ![p] = "done"]
            /\ ret' = [ret EXCEPT ![p] =
                         Err("Repository not found or inaccessible")]
            /\ UNCHANGED <<this, objectCache>>
    /\ UNCHANGED <<files, loc>>

\* this.vcs.init() has finished: the repository is initialised
RiVcs(p) ==
    /\ pc[p] = "ri:vcs"
    /\ this' = [this EXCEPT !.isInitialized = TRUE]
    /\ pc' = [pc EXCEPT ![p] = "done"]
    /\ loc' = [loc EXCEPT ![p].vcs = this.vcs]
    /\ ret' = [ret EXCEPT ![p] = Ok(<<>>)]
    /\ UNCHANGED <<files, objectCache>>

\* the public methods that await init() first
InitCallers == {"getBranches", "getFiles"}

NextRepository ==
    \E p \in Procs :
        \/ \E method \in InitCallers : RepoInitCall(p, method)
        \/ RiRead(p)
        \/ RiVcs(p)

SpecRepository == InitRepository /\ [][NextRepository]_vars

\* C32: Repository.init is once-only under interleaving: the engine is
\* constructed and assigned to this.vcs at most once and content.json is
\* read at most once.
C32_InitOnce ==
    /\ this.created <= 1
    /\ this.reads <= 1

(***************************************************************************)
(* EventEmitter: this.events maps an event to the array of its callbacks.  *)
(* A callback is a record: id names the function, kind says what it does   *)
(* when called ("plain" returns, "throws" throws, "once" is the wrapper    *)
(* once() registers, "unsub" calls off() on the callback target).          *)
(* registered and called record the array the emit just made started with  *)
(* and the callbacks it called, in order; the next method call empties     *)
(* them.  All methods are synchronous.                                     *)
(***************************************************************************)
\* callbacks registered for one event at a time
MaxListeners == 3

EVENT == "change"

Kinds == {"plain", "throws", "once", "unsub"}

\* the callbacks array of an event; <<>> when the map has no entry
Listeners(events, event) ==
    IF event \in DOMAIN events THEN events[event] ELSE <<>>

\* callbacks.indexOf(callback), from 1; 0 when it is not there
ListenerIndex(callbacks, id) ==
    LET found == {i \in 1..Len(callbacks) : callbacks[i].id = id}
    IN IF found = {} THEN 0 ELSE CHOOSE i \in found : \A j \in found : i <= j

\* callbacks.splice(index, 1) in EventEmitter.off
Splice(callbacks, id) ==
    LET index == ListenerIndex(callbacks, id)
    IN IF index = 0 THEN callbacks
       ELSE [i \in 1..(Len(callbacks) - 1) |->
                IF i < index THEN callbacks[i] ELSE callbacks[i + 1]]

\* the events map with the array of event set to callbacks; off() deletes
\* the entry of an array that has become empty
SetListeners(events, event, callbacks) ==
    IF callbacks = <<>>
    THEN [e \in DOMAIN events \ {event} |-> events[e]]
    ELSE [e \in DOMAIN events \cup {event} |->
             IF e = event THEN callbacks ELSE events[e]]

\* callbacks.forEach(...) in EventEmitter.emit: the indices below the length
\* the array had at the start are visited in order, on the array as it is
\* when the index is reached; an index the array no longer has is skipped.
\* called lists the callbacks called so far.
RECURSIVE forEach(_, _, _, _)
forEach(callbacks, k, len, called) ==
    IF k > len THEN [callbacks |-> callbacks, called |-> called]
    ELSE IF k > Len(callbacks) THEN forEach(callbacks, k + 1, len, called)
    ELSE LET callback == callbacks[k]
             after == IF callback.kind = "once"
                      THEN Splice(callbacks, callback.id)
                      ELSE IF callback.kind = "unsub"
                      THEN Splice(callbacks, callback.target)
                      ELSE callbacks
         IN forEach(after, k + 1, len, Append(called, callback.id))

\* the EventEmitter constructor
InitEmitter ==
    /\ this = [events |-> <<>>, registered |-> <<>>, called |-> <<>>]
    /\ files = <<>>
    /\ objectCache = <<>>
    /\ pc = [p \in Procs |-> "idle"]
    /\ loc = [p \in Procs |-> NoCall]
    /\ ret = [p \in Procs |-> NoRet]

\* EventEmitter.on(event, callback) and, for kind "once",
\* EventEmitter.once(event, callback)
OnCall(id, kind, target) ==
    /\ Len(Listeners(this.events, EVENT)) < MaxListeners
    /\ ListenerIndex(Listeners(this.events, EVENT), id) = 0
    /\ this' = [events |-> SetListeners(this.events, EVENT,
                      Append(Listeners(this.events, EVENT),
                             [id |-> id, kind |-> kind,
                              target |-> IF kind = "unsub" THEN target
                                         ELSE id])),
                registered |-> <<>>, called |-> <<>>]
    /\ UNCHANGED <<files, objectCache, pc, loc, ret>>

\* EventEmitter.off(event, callback) called from outside an emit.  The
\* function once() was given is not in the array, its wrapper is.
OffCall(id) ==
    /\ EVENT \in DOMAIN this.events
    /\ LET callbacks == this.events[EVENT]
           index == ListenerIndex(callbacks, id)
       IN this' = [events |->
                       IF index > 0 /\ callbacks[index].kind # "once"
                       THEN SetListeners(this.events, EVENT,
                                         Splice(callbacks, id))
                       ELSE this.events,
                   registered |-> <<>>, called |-> <<>>]
    /\ UNCHANGED <<files, objectCache, pc, loc, ret>>

\* EventEmitter.emit(event)
EmitCall ==
    /\ EVENT \in DOMAIN this.events
    /\ LET callbacks == this.events[EVENT]
           r == forEach(callbacks, 1, Len(callbacks), <<>>)
       IN this' = [events |-> SetListeners(this.events, EVENT, r.callbacks),
                   registered |-> callbacks,
                   called |-> r.called]
    /\ UNCHANGED <<files, objectCache, pc, loc, ret>>

\* EventEmitter.removeAllListeners(event)
RemoveAllListeners ==
    /\ this' = [events |-> SetListeners(this.events, EVENT, <<>>),
                registered |-> <<>>, called |-> <<>>]
    /\ UNCHANGED <<files, objectCache, pc, loc, ret>>

NextEmitter ==
    \/ \E id \in 1..MaxListeners, kind \in Kinds, target \in 1..MaxListeners :
          OnCall(id, kind, target)
    \/ \E id \in 1..MaxListeners : OffCall(id)
    \/ EmitCall
    \/ RemoveAllListeners

SpecEmitter == InitEmitter /\ [][NextEmitter]_vars

\* C33: emit(event) calls every callback registered for the event when
\* emit starts exactly once, in registration order, also when one of them
\* was registered with once() or calls off() during the emit and when an
\* earlier one throws.
C33_EmitCallsAll ==
    this.called = [k \in 1..Len(this.registered) |-> this.registered[k].id]

(***************************************************************************)
(* Cache: this.cache maps a key to {value, expiresAt}, this.cleanupTimer   *)
(* is <<>> for no timer or the time the timer is due.  now is the clock    *)
(* Date.now() reads, in ticks.  lastSet keeps, for every key, the latest   *)
(* set() that no delete() or clear() has followed, and result the get()    *)
(* just made; the next call or tick empties result.  All methods are       *)
(* synchronous.                                                            *)
(***************************************************************************)
\* the clock stops here
MaxTime == 3

\* defaultTTL, in ticks
DefaultTTL == 1

UNDEFINED == <<"undefined">>

CacheKeys == {"k1", "k2"}

CacheValues == {"v1", "v2"}

\* the ttl arguments of set: none (the default), 0 and two ticks
TTLs == {<<>>, <<0>>, <<2>>}

NoResult == [op |-> "none"]

\* Date.now() > entry.expiresAt that is never true
Expired_never(now, entry) == FALSE

\* Date.now() > entry.expiresAt
Expired(now, entry) == now > entry.expiresAt

\* Cache.cleanup() on the map
Cleanup(cache, now) ==
    [k \in {q \in DOMAIN cache : ~Expired(now, cache[q])} |-> cache[k]]

\* the Cache constructor
InitCache ==
    /\ this = [cache |-> <<>>, cleanupTimer |-> <<>>, now |-> 0,
               lastSet |-> <<>>, result |-> NoResult]
    /\ files = <<>>
    /\ objectCache = <<>>
    /\ pc = [p \in Procs |-> "idle"]
    /\ loc = [p \in Procs |-> NoCall]
    /\ ret = [p \in Procs |-> NoRet]

\* Cache.set(key, value, ttl) with scheduleCleanup()
CacheSet(key, value, ttl) ==
    /\ LET t == IF ttl = <<>> THEN DefaultTTL ELSE ttl[1]
           entry == [value |-> value, expiresAt |-> this.now + t]
       IN this' = [this EXCEPT
                     !.cache = [k \in DOMAIN @ \cup {key} |->
                                   IF k = key THEN entry ELSE @[k]],
                     !.cleanupTimer = IF @ = <<>>
                                      THEN <<this.now + DefaultTTL>> ELSE @,
                     !.lastSet = [k \in DOMAIN @ \cup {key} |->
                                     IF k = key
                                     THEN [value |-> value, at |-> this.now,
                                           ttl |-> t]
                                     ELSE @[k]],
                     !.result = NoResult]
    /\ UNCHANGED <<files, objectCache, pc, loc, ret>>

\* Cache.get(key)
CacheGet(key) ==
    /\ LET found == key \in DOMAIN this.cache
           expired == found /\ Expired(this.now, this.cache[key])
       IN this' = [this EXCEPT
                     !.cache = IF expired
                               THEN [k \in DOMAIN @ \ {key} |-> @[k]]
                               ELSE @,
                     !.result = [op |-> "get", key |-> key, found |-> found,
                                 v |-> IF found /\ ~expired
                                       THEN <<this.cache[key].value>>
                                       ELSE UNDEFINED]]
    /\ UNCHANGED <<files, objectCache, pc, loc, ret>>

\* Cache.delete(key)
CacheDelete(key) ==
    /\ this' = [this EXCEPT
                  !.cache = [k \in DOMAIN @ \ {key} |-> @[k]],
                  !.lastSet = [k \in DOMAIN @ \ {key} |-> @[k]],
                  !.result = NoResult]
    /\ UNCHANGED <<files, objectCache, pc, loc, ret>>

\* Cache.clear()
CacheClear ==
    /\ this' = [this EXCEPT !.cache = <<>>, !.lastSet = <<>>,
                            !.result = NoResult]
    /\ UNCHANGED <<files, objectCache, pc, loc, ret>>

\* Cache.cleanup(), called directly or by size()
CacheCleanup ==
    /\ this' = [this EXCEPT !.cache = Cleanup(@, this.now),
                            !.result = NoResult]
    /\ UNCHANGED <<files, objectCache, pc, loc, ret>>

\* the timer of scheduleCleanup fires, at its due time or later
TimerFires ==
    /\ this.cleanupTimer # <<>>
    /\ this.now >= this.cleanupTimer[1]
    /\ this' = [this EXCEPT !.cache = Cleanup(@, this.now),
                            !.cleanupTimer = <<>>,
                            !.result = NoResult]
    /\ UNCHANGED <<files, objectCache, pc, loc, ret>>

\* time passes
Tick ==
    /\ this.now < MaxTime
    /\ this' = [this EXCEPT !.now = @ + 1, !.result = NoResult]
    /\ UNCHANGED <<files, objectCache, pc, loc, ret>>

NextCache ==
    \/ \E key \in CacheKeys, value \in CacheValues, ttl \in TTLs :
          CacheSet(key, value, ttl)
    \/ \E key \in CacheKeys : CacheGet(key)
    \/ \E key \in CacheKeys : CacheDelete(key)
    \/ CacheClear
    \/ CacheCleanup
    \/ TimerFires
    \/ Tick

SpecCache == InitCache /\ [][NextCache]_vars

\* C34: Cache never serves an expired entry: get(key) returns the value of
\* the most recent set(key, value, ttl) when that set happened no more than
\* ttl ago and no delete or clear followed it; otherwise it returns
\* undefined, and the key is not in the map after a get that returned
\* undefined.
C34_NoExpiredEntry ==
    this.result.op = "get"
    => LET key == this.result.key
           live == /\ key \in DOMAIN this.lastSet
                   /\ this.now - this.lastSet[key].at <= this.lastSet[key].ttl
       IN /\ this.result.v = IF live THEN <<this.lastSet[key].value>>
                             ELSE UNDEFINED
          /\ this.result.v = UNDEFINED => key \notin DOMAIN this.cache

\* get has found an entry set more than its ttl ago, returned undefined and
\* removed the entry
C34_ExpiredRemoved ==
    /\ this.result.op = "get"
    /\ this.result.found
    /\ this.result.v = UNDEFINED
    /\ this.result.key \in DOMAIN this.lastSet
    /\ this.now - this.lastSet[this.result.key].at
          > this.lastSet[this.result.key].ttl
    /\ this.result.key \notin DOMAIN this.cache

====
